---- MODULE Spec2Model ----
(***************************************************************************)
(* Model of the event-labeling engine of nepal-indirex-backend             *)
(* (src/src/controllers/stream.controller.ts): the labelEvent handler, the *)
(* event table it reads, the labeled_events table it appends to and the    *)
(* S3 bucket its CopyObject commands write to.                             *)
(*                                                                         *)
(* Strings that the code inspects (format, content, S3 keys, URLs) are     *)
(* sequences of tokens; strings it only stores or compares are TLA+        *)
(* strings.  A falsy JavaScript value (undefined, null, "") of a string    *)
(* field is the empty string / empty sequence, as the code only ever       *)
(* tests such fields for truthiness.                                       *)
(***************************************************************************)
EXTENDS Integers, Sequences, FiniteSets, TLC

VARIABLES
    events,         \* table "events": id -> row (read-only for the engine)
    awsConfigured,  \* process.env.AWS_ACCESS_KEY_ID && AWS_SECRET_ACCESS_KEY
    s3,             \* bucket S3_BUCKET: key -> object body
    labeledEvents,  \* table "labeled_events": sequence of rows, id = index
    pc,             \* position of the labelEvent handler
    req,            \* req.body of the request being (or last) handled
    sortedEvents,   \* local: the fetched rows sorted by timestamp
    idx,            \* local: position of the for-of loop over sortedEvents
    group,          \* local: the group accumulator
    response,       \* the last response sent with res.status(..).json(..)
    copyLog,        \* CopyObjectCommands sent while handling req, in order
    segsAtStart,    \* Len(labeledEvents) when req was received
    isRetry,        \* req re-issues the previous request, which was aborted
                    \* by a failed image copy
    page,           \* getLabeledEvents: the rows findMany returned, after
                    \* the in-place sort by timestamp
    recResponse,    \* the last response of a GET of the labeled events
    peer,           \* a second invocation of labelEvent: its position, its
                    \* request, its locals and its response
    perEvent        \* an invocation of the labelEvent that creates one row
                    \* per event: its position, its request, its locals and
                    \* its response

vars == <<events, awsConfigured, s3, labeledEvents, pc, req, sortedEvents,
          idx, group, response, copyLog, segsAtStart, isRetry, page,
          recResponse, peer, perEvent>>

----------------------------------------------------------------------------
(* Bounds *)

NumEvents == 2      \* rows of the events table, ids 1..NumEvents
MaxTs == 2          \* event timestamps range over 1..MaxTs
MaxSegments == 2    \* labelEvent is accepted while fewer rows are labeled
MaxRows == 3        \* rows of labeled_events the GET handlers are given

(* Program constants *)

S3_BUCKET == "apm-captured-images"
region == "ap-south-1"

----------------------------------------------------------------------------
(* Generic helpers *)

Range(s) == {s[i] : i \in DOMAIN s}

Perms(S) ==
    {p \in [1..Cardinality(S) -> S] : \A a \in S : \E i \in DOMAIN p : p[i] = a}

\* mutant of Filter: nothing is filtered out
Filter_KeepAll(s, keep) == s

\* Array.prototype.filter
RECURSIVE Filter(_, _)
Filter(s, keep) ==
    IF s = <<>> THEN <<>>
    ELSE IF Head(s) \in keep THEN <<Head(s)>> \o Filter(Tail(s), keep)
         ELSE Filter(Tail(s), keep)

Digits == {"0", "1", "2", "3", "4", "5", "6", "7", "8", "9"}
DigitOf(d) ==
    CASE d = 0 -> "0" [] d = 1 -> "1" [] d = 2 -> "2" [] d = 3 -> "3"
      [] d = 4 -> "4" [] d = 5 -> "5" [] d = 6 -> "6" [] d = 7 -> "7"
      [] d = 8 -> "8" [] d = 9 -> "9"

\* BigInt.prototype.toString: the decimal digits of a non-negative integer
RECURSIVE toString(_)
toString(n) ==
    IF n < 10 THEN <<DigitOf(n)>> ELSE toString(n \div 10) \o <<DigitOf(n % 10)>>

----------------------------------------------------------------------------
(* URLs and S3 keys.  A URL is [host, pathname]; a pathname and a key are  *)
(* sequences of tokens, "/" being a token of its own.                      *)

UnlabeledFrames == {"unrecognized_frames", "analayzed_frames"}

\* the host of `https://${S3_BUCKET}.s3.${region}.amazonaws.com/...`
BucketHost == <<S3_BUCKET, "s3", region, "amazonaws.com">>

\* a string `new URL` does not parse has no pathname (the pathname of a
\* parsed URL starts with "/")
NotAUrl == [host |-> <<>>, pathname |-> <<>>]

\* new URL(imagePath) does not throw
ParsesAsUrl(imagePath) == imagePath.pathname # <<>>

\* extractS3Key: new URL(imagePath).pathname.substring(1)
extractS3Key(imagePath) == Tail(imagePath.pathname)

\* mutant of MatchesAt: the pattern spells analyzed_frames, which no path has
MatchesAt_Typo(key, i) ==
    /\ i + 2 <= Len(key)
    /\ key[i] = "Nepal_Frames"
    /\ key[i + 1] = "/"
    /\ key[i + 2] \in {"unrecognized_frames", "analyzed_frames"}

\* does /Nepal_Frames\/(unrecognized_frames|analayzed_frames)/ match at i
MatchesAt(key, i) ==
    /\ i + 2 <= Len(key)
    /\ key[i] = "Nepal_Frames"
    /\ key[i + 1] = "/"
    /\ key[i + 2] \in UnlabeledFrames

\* String.prototype.replace with that regular expression (no g flag: only
\* the first match is replaced) and 'Nepal_Frames/labeled_frames'
ReplaceFramesDir(key) ==
    LET hits == {i \in 1..Len(key) : MatchesAt(key, i)}
    IN  IF hits = {} THEN key
        ELSE LET i == CHOOSE j \in hits : \A k \in hits : j <= k
             IN  [key EXCEPT ![i + 2] = "labeled_frames"]

\* `https://${S3_BUCKET}.s3.${region}.amazonaws.com/${labeledKey}`
LabeledUrl(labeledKey) == [host |-> BucketHost, pathname |-> <<"/">> \o labeledKey]

generateLabeledImagePath(originalPath) ==
    LabeledUrl(ReplaceFramesDir(extractS3Key(originalPath)))

----------------------------------------------------------------------------
(* Time helpers *)

\* formatTimestamp: the calendar day and the wall-clock second of the day
\* of the instant (toLocaleDateString / toLocaleTimeString of en-GB render
\* exactly these two values, at one-second resolution)
formatTimestamp(timestamp) ==
    [date  |-> timestamp \div 86400,
     begin |-> <<(timestamp % 86400) \div 3600,
                 ((timestamp % 86400) % 3600) \div 60,
                 timestamp % 60>>]

Max(S) == CHOOSE x \in S : \A y \in S : y <= x
Min(S) == CHOOSE x \in S : \A y \in S : x <= y

\* calculateDuration: 0 for at most one element, else the largest minus the
\* smallest timestamp (first and last of the numerically sorted copy)
calculateDuration(evs) ==
    IF Len(evs) <= 1 THEN 0
    ELSE LET timestamps == {evs[i].timestamp : i \in DOMAIN evs}
         IN  Max(timestamps) - Min(timestamps)

\* mutant of SortByTimestamp: the rows stay in the order of the database
SortByTimestamp_Unsorted(s) == s

\* Array.prototype.sort((a, b) => Number(a.timestamp) - Number(b.timestamp)):
\* a stable sort, ascending by timestamp
RECURSIVE InsertByTimestamp(_, _)
InsertByTimestamp(sorted, e) ==
    IF sorted = <<>> THEN <<e>>
    ELSE IF Head(sorted).timestamp <= e.timestamp
         THEN <<Head(sorted)>> \o InsertByTimestamp(Tail(sorted), e)
         ELSE <<e>> \o sorted

RECURSIVE SortByTimestamp(_)
SortByTimestamp(s) ==
    IF s = <<>> THEN <<>>
    ELSE InsertByTimestamp(SortByTimestamp(SubSeq(s, 1, Len(s) - 1)), s[Len(s)])

----------------------------------------------------------------------------
(* Event details.  A details JSON object is a function from its keys.      *)

\* validateEventDetails: TRUE iff the code returns the details (not null)
validateEventDetails(details) ==
    /\ "score" \in DOMAIN details
    /\ "image_path" \in DOMAIN details
    /\ "channel_name" \in DOMAIN details

\* the details an ingested event can carry: without image_path, with an
\* image_path that is no URL, or with the URL of its frame in one of the
\* two unlabeled areas of the bucket
FrameUrl(area, id) ==
    [host |-> BucketHost,
     pathname |-> <<"/", "Nepal_Frames", "/", area, "/", "frame">>
                      \o toString(id) \o <<".jpg">>]

DetailsChoices(id) ==
    {[score |-> 1, channel_name |-> "ch"],
     [score |-> 1, image_path |-> NotAUrl, channel_name |-> "ch"]}
    \cup {[score |-> 1, image_path |-> FrameUrl(area, id), channel_name |-> "ch"] :
              area \in UnlabeledFrames}

Devices == {"d1"}

EventRows(id) ==
    {[id |-> id, deviceId |-> d, timestamp |-> t, details |-> det] :
        d \in Devices, t \in 1..MaxTs, det \in DetailsChoices(id)}

\* the object every frame URL of the events table points to
SourceKeys(evs) ==
    {extractS3Key(evs[i].details.image_path) :
        i \in {j \in DOMAIN evs : /\ validateEventDetails(evs[j].details)
                                    /\ ParsesAsUrl(evs[j].details.image_path)}}

----------------------------------------------------------------------------
(* Request bodies *)

\* an optional category-details object of the body
NoDetails == [given |-> FALSE, fields |-> [k \in {} |-> ""]]
Details(f) == [given |-> TRUE, fields |-> f]

\* o?.k, "" standing for undefined
Field(o, k) == IF o.given /\ k \in DOMAIN o.fields THEN o.fields[k] ELSE ""

NotAnArray == [isArray |-> FALSE, items |-> <<>>]
IdArray(ids) == [isArray |-> TRUE, items |-> ids]

BaseBody ==
    [eventIds |-> IdArray(<<>>),
     detectionType |-> "Song",
     format |-> <<"1", "2">>,
     content |-> <<"1", "2", "3">>,
     title |-> "title",
     episodeId |-> "",
     seasonId |-> "",
     repeat |-> FALSE,
     labeledBy |-> "operator",
     programContentDetails |-> NoDetails,
     commercialBreakDetails |-> NoDetails,
     spotsOutsideBreaksDetails |-> NoDetails,
     autoPromoDetails |-> NoDetails,
     songDetails |-> Details([songName |-> "song", artistName |-> "artist"]),
     errorDetails |-> NoDetails]

\* request fields that pass the validation: a Song and a Commercial Break
AcceptedFieldChoices ==
    {BaseBody,
     [BaseBody EXCEPT !.detectionType = "Commercial Break", !.format = <<>>,
                      !.content = <<>>, !.songDetails = NoDetails]}

\* the Song request with one field made invalid
RejectedFieldChoices ==
    {[BaseBody EXCEPT !.detectionType = ""],
     [BaseBody EXCEPT !.format = <<"1">>],
     [BaseBody EXCEPT !.format = <<"1", "a">>],
     [BaseBody EXCEPT !.content = <<"1", "2">>],
     [BaseBody EXCEPT !.songDetails = NoDetails],
     [BaseBody EXCEPT !.songDetails = Details([songName |-> "song"])],
     [BaseBody EXCEPT !.songDetails = Details([songName |-> "", artistName |-> "artist"])]}

\* the detectionType values the type LabelEventRequest declares
DetectionTypes ==
    {"Program Content", "Commercial Break", "Spots outside breaks",
     "Auto-promo", "Song", "Error"}

\* a body whose detectionType is none of them: `req.body as
\* LabelEventRequest` is a cast, it checks nothing at run time
UnrecognizedTypeBody == [BaseBody EXCEPT !.detectionType = "Drama"]

RECURSIVE SeqsUpTo(_, _)
SeqsUpTo(S, n) ==
    IF n = 0 THEN {<<>>}
    ELSE LET shorter == SeqsUpTo(S, n - 1)
         IN  shorter \cup {Append(q, x) : q \in shorter, x \in S}

\* ids a client may name: those of the table and one that does not exist
EventIdsChoices ==
    {NotAnArray} \cup {IdArray(q) : q \in SeqsUpTo(1..(NumEvents + 1), NumEvents)}

\* the bodies tried: every choice of ids with the accepted fields, one
\* existing and one missing id with the rejected fields, and one existing
\* id with the unrecognized detectionType
Bodies ==
    {[f EXCEPT !.eventIds = e] : f \in AcceptedFieldChoices, e \in EventIdsChoices}
    \cup {[f EXCEPT !.eventIds = IdArray(<<id>>)] :
              f \in RejectedFieldChoices, id \in {1, NumEvents + 1}}
    \cup {[UnrecognizedTypeBody EXCEPT !.eventIds = IdArray(<<1>>)]}

----------------------------------------------------------------------------
(* labelEvent: validation of the request fields *)

\* /^\d{n}$/.test(str)
IsDigits(str, n) == Len(str) = n /\ \A i \in DOMAIN str : str[i] \in Digits

Reply(status, message, ids, data) ==
    [status |-> status, message |-> message, ids |-> ids, data |-> data]

NoReply == Reply(0, "", <<>>, <<>>)

\* mutant of RejectionOf: the checks of the category details are missing
RejectionOf_NoCategoryChecks(b, aws) ==
    IF \/ ~b.eventIds.isArray
       \/ Len(b.eventIds.items) = 0
       \/ b.detectionType = ""
    THEN Reply(400, "Event IDs and detection type are required", <<>>, <<>>)
    ELSE IF ~aws
    THEN Reply(500, "Server configuration error", <<>>, <<>>)
    ELSE IF b.format # <<>> /\ ~IsDigits(b.format, 2)
    THEN Reply(400, "Format must be a 2-digit code", <<>>, <<>>)
    ELSE IF b.content # <<>> /\ ~IsDigits(b.content, 3)
    THEN Reply(400, "Content must be a 3-digit code", <<>>, <<>>)
    ELSE NoReply

\* the early returns of labelEvent that precede the fetch of the events, in
\* the order of the code; NoReply when the request passes all of them
RejectionOf(b, aws) ==
    IF \/ ~b.eventIds.isArray
       \/ Len(b.eventIds.items) = 0
       \/ b.detectionType = ""
    THEN Reply(400, "Event IDs and detection type are required", <<>>, <<>>)
    ELSE IF ~aws
    THEN Reply(500, "Server configuration error", <<>>, <<>>)
    ELSE IF b.format # <<>> /\ ~IsDigits(b.format, 2)
    THEN Reply(400, "Format must be a 2-digit code", <<>>, <<>>)
    ELSE IF b.content # <<>> /\ ~IsDigits(b.content, 3)
    THEN Reply(400, "Content must be a 3-digit code", <<>>, <<>>)
    ELSE IF /\ b.detectionType = "Program Content"
            /\ \/ ~b.programContentDetails.given
               \/ Field(b.programContentDetails, "description") = ""
               \/ Field(b.programContentDetails, "formatType") = ""
               \/ Field(b.programContentDetails, "contentType") = ""
    THEN Reply(400, "Program content details (description, formatType, contentType) are required for Program Content detection type", <<>>, <<>>)
    ELSE IF /\ b.detectionType = "Spots outside breaks"
            /\ \/ ~b.spotsOutsideBreaksDetails.given
               \/ Field(b.spotsOutsideBreaksDetails, "formatType") = ""
    THEN Reply(400, "Format type is required for Spots outside breaks detection type", <<>>, <<>>)
    ELSE IF /\ b.detectionType = "Auto-promo"
            /\ \/ ~b.autoPromoDetails.given
               \/ Field(b.autoPromoDetails, "contentType") = ""
    THEN Reply(400, "Content type is required for Auto-promo detection type", <<>>, <<>>)
    ELSE IF /\ b.detectionType = "Song"
            /\ \/ ~b.songDetails.given
               \/ Field(b.songDetails, "songName") = ""
               \/ Field(b.songDetails, "artistName") = ""
    THEN Reply(400, "Song details (songName, artistName) are required for Song detection type", <<>>, <<>>)
    ELSE IF /\ b.detectionType = "Error"
            /\ \/ ~b.errorDetails.given
               \/ Field(b.errorDetails, "errorType") = ""
    THEN Reply(400, "Error type is required for Error detection type", <<>>, <<>>)
    ELSE IF /\ b.detectionType = "Program Content"
            /\ (b.episodeId # "" \/ b.seasonId # "")
            /\ ~b.programContentDetails.given
    THEN Reply(400, "Program content details are required when episodeId or seasonId is provided", <<>>, <<>>)
    ELSE NoReply

----------------------------------------------------------------------------
(* labelEvent: the group, the details and the row it builds *)

NoGroup ==
    [deviceId |-> "", originalEventIds |-> <<>>, timestampStart |-> 0,
     timestampEnd |-> 0, images |-> <<>>, details |-> [k \in {} |-> ""]]

\* mutant of InitialGroup: the device is that of the last event
InitialGroup_DeviceOfLast(sorted) ==
    [deviceId |-> sorted[Len(sorted)].deviceId,
     originalEventIds |-> [i \in DOMAIN sorted |-> sorted[i].id],
     timestampStart |-> sorted[1].timestamp,
     timestampEnd |-> sorted[Len(sorted)].timestamp,
     images |-> <<>>,
     details |-> [k \in {} |-> ""]]

\* lines 489-496: the group of all fetched events
InitialGroup(sorted) ==
    [deviceId |-> sorted[1].deviceId,
     originalEventIds |-> [i \in DOMAIN sorted |-> sorted[i].id],
     timestampStart |-> sorted[1].timestamp,
     timestampEnd |-> sorted[Len(sorted)].timestamp,
     images |-> <<>>,
     details |-> [k \in {} |-> ""]]

\* mutant of LabeledKey: the key of a re-issued request gets a suffix
LabeledKey_PerAttempt(event) ==
    IF isRetry
    THEN ReplaceFramesDir(extractS3Key(event.details.image_path)) \o <<".retry">>
    ELSE ReplaceFramesDir(extractS3Key(event.details.image_path))

\* lines 510-514: the key of the copy's destination
LabeledKey(event) == ReplaceFramesDir(extractS3Key(event.details.image_path))

\* lines 519-525: the CopyObjectCommand for an event
CopyCommand(event) ==
    [Bucket |-> S3_BUCKET,
     CopySource |-> [bucket |-> S3_BUCKET,
                     key |-> extractS3Key(event.details.image_path)],
     Key |-> LabeledKey(event)]

\* { ...a, ...b }: the keys of b win
Spread(a, b) == b @@ a

\* mutant of GroupAfterCopy: the reference is put in front of the list
GroupAfterCopy_Prepend(g, event, sorted) ==
    LET url == LabeledUrl(LabeledKey(event))
        withImage == [g EXCEPT !.images = <<url>> \o @]
    IN  IF event.id = sorted[1].id
        THEN [withImage EXCEPT !.details =
                 Spread(event.details,
                        [original_image_path |-> event.details.image_path,
                         image_path |-> url])]
        ELSE withImage

\* lines 537-547: the group after the copy of an event succeeded
GroupAfterCopy(g, event, sorted) ==
    LET url == LabeledUrl(LabeledKey(event))
        withImage == [g EXCEPT !.images = Append(@, url)]
    IN  IF event.id = sorted[1].id
        THEN [withImage EXCEPT !.details =
                 Spread(event.details,
                        [original_image_path |-> event.details.image_path,
                         image_path |-> url])]
        ELSE withImage

\* a || b on strings, "" standing for undefined
Or(a, b) == IF a # "" THEN a ELSE b

\* an object without the keys whose value is undefined (JSON drops them)
Defined(f) == [k \in {j \in DOMAIN f : f[j] # ""} |-> f[k]]

\* ...details of a category object that may be undefined
SpreadOf(o) == IF o.given THEN o.fields ELSE [k \in {} |-> ""]

\* mutant of CategoryFields: every detail object of the request is spread
CategoryFields_AllTypes(b) ==
    Spread(Spread(Spread(Spread(Spread(SpreadOf(b.programContentDetails),
                                       SpreadOf(b.commercialBreakDetails)),
                                SpreadOf(b.spotsOutsideBreaksDetails)),
                         SpreadOf(b.autoPromoDetails)),
                  SpreadOf(b.songDetails)),
           SpreadOf(b.errorDetails))

\* lines 558-571: the category-specific fields of the request's own type
CategoryFields(b) ==
    CASE b.detectionType = "Program Content" ->
             Spread(SpreadOf(b.programContentDetails),
                    Defined([episodeId |-> Or(b.episodeId, Field(b.programContentDetails, "episodeId")),
                             seasonId |-> Or(b.seasonId, Field(b.programContentDetails, "seasonId"))]))
      [] b.detectionType = "Commercial Break" -> SpreadOf(b.commercialBreakDetails)
      [] b.detectionType = "Spots outside breaks" -> SpreadOf(b.spotsOutsideBreaksDetails)
      [] b.detectionType = "Auto-promo" -> SpreadOf(b.autoPromoDetails)
      [] b.detectionType = "Song" -> SpreadOf(b.songDetails)
      [] b.detectionType = "Error" -> SpreadOf(b.errorDetails)
      [] OTHER -> [k \in {} |-> ""]

\* lines 554-572
LabeledEventDetails(b, g, sorted) ==
    Spread(Spread(g.details,
                  [images |-> g.images, duration |-> calculateDuration(sorted)]),
           CategoryFields(b))

\* lines 575-598: the data of prisma.labeledEvent.create, with the id the
\* table assigns (labeledAt and createdAt, the insertion time, are left out)
LabeledEventRow(id, b, g, sorted) ==
    [id |-> id,
     deviceId |-> g.deviceId,
     originalEventId |-> sorted[1].id,
     timestamp |-> g.timestampStart,
     date |-> formatTimestamp(g.timestampStart).date,
     begin |-> formatTimestamp(g.timestampStart).begin,
     format |-> b.format,
     content |-> b.content,
     title |-> b.title,
     episodeId |-> IF b.detectionType = "Program Content"
                   THEN Or(b.episodeId, Field(b.programContentDetails, "episodeId"))
                   ELSE "",
     seasonId |-> IF b.detectionType = "Program Content"
                  THEN Or(b.seasonId, Field(b.programContentDetails, "seasonId"))
                  ELSE "",
     repeat |-> b.repeat,
     detectionType |-> b.detectionType,
     details |-> LabeledEventDetails(b, g, sorted),
     labeledBy |-> b.labeledBy]

\* lines 601-610: the element of the response's data array
LabeledResponse(row, g) ==
    [labeledEvent |-> row,
     timestamp |-> toString(row.timestamp),
     timestampStart |-> toString(g.timestampStart),
     timestampEnd |-> toString(g.timestampEnd),
     originalEventIds |-> g.originalEventIds,
     images |-> g.images]

----------------------------------------------------------------------------
(* getLabeledEvents / getManuallyLabeledEvents: the loop that combines the *)
(* fetched rows into groups.  The two handlers have the same code.         *)

\* the largest distance of timestamps isSimilar accepts
MergeWindow == 60

Abs(n) == IF n < 0 THEN -n ELSE n

\* Number(str) of a string of decimal digits
RECURSIVE Number(_)
Number(str) ==
    IF str = <<>> THEN 0
    ELSE 10 * Number(SubSeq(str, 1, Len(str) - 1))
         + (CHOOSE d \in 0..9 : DigitOf(d) = str[Len(str)])

\* details.k, "" standing for undefined
Sub(details, k) == IF k \in DOMAIN details THEN details[k] ELSE ""

\* the sub-fields of details that isSimilar compares
ComparedSubFields ==
    {"description", "formatType", "contentType", "category", "sector",
     "songName", "movieNameOrAlbumName", "artistName", "yearOfPublication",
     "genre", "tempo", "errorType"}

\* mutant of isSimilar: the distance of the timestamps is not tested
isSimilar_AnyDistance(prev, curr) ==
    /\ prev.deviceId = curr.deviceId
    /\ prev.detectionType = curr.detectionType
    /\ prev.date = curr.date
    /\ prev.begin = curr.begin
    /\ prev.format = curr.format
    /\ prev.content = curr.content
    /\ prev.title = curr.title
    /\ prev.episodeId = curr.episodeId
    /\ prev.seasonId = curr.seasonId
    /\ prev.repeat = curr.repeat
    /\ \A k \in ComparedSubFields : Sub(prev.details, k) = Sub(curr.details, k)

\* mutant of isSimilar: the title is not compared
isSimilar_NoTitle(prev, curr) ==
    /\ prev.deviceId = curr.deviceId
    /\ prev.detectionType = curr.detectionType
    /\ prev.date = curr.date
    /\ prev.begin = curr.begin
    /\ prev.format = curr.format
    /\ prev.content = curr.content
    /\ prev.episodeId = curr.episodeId
    /\ prev.seasonId = curr.seasonId
    /\ prev.repeat = curr.repeat
    /\ \A k \in ComparedSubFields : Sub(prev.details, k) = Sub(curr.details, k)
    /\ Abs(prev.timestamp - curr.timestamp) <= MergeWindow

\* mutant of isSimilar: date and begin are not compared
isSimilar_NoDateBegin(prev, curr) ==
    /\ prev.deviceId = curr.deviceId
    /\ prev.detectionType = curr.detectionType
    /\ prev.format = curr.format
    /\ prev.content = curr.content
    /\ prev.title = curr.title
    /\ prev.episodeId = curr.episodeId
    /\ prev.seasonId = curr.seasonId
    /\ prev.repeat = curr.repeat
    /\ \A k \in ComparedSubFields : Sub(prev.details, k) = Sub(curr.details, k)
    /\ Abs(prev.timestamp - curr.timestamp) <= MergeWindow

\* isSimilar(prev, curr), lines 908-932
isSimilar(prev, curr) ==
    /\ prev.deviceId = curr.deviceId
    /\ prev.detectionType = curr.detectionType
    /\ prev.date = curr.date
    /\ prev.begin = curr.begin
    /\ prev.format = curr.format
    /\ prev.content = curr.content
    /\ prev.title = curr.title
    /\ prev.episodeId = curr.episodeId
    /\ prev.seasonId = curr.seasonId
    /\ prev.repeat = curr.repeat
    /\ \A k \in ComparedSubFields : Sub(prev.details, k) = Sub(curr.details, k)
    /\ Abs(prev.timestamp - curr.timestamp) <= MergeWindow

\* lines 934-936: the images of a row (details.images is an array when
\* present, as labelEvent writes it)
ImagesOf(event) ==
    IF "images" \in DOMAIN event.details
    THEN event.details.images
    ELSE <<event.details.image_path>>

\* mutant of NewGroup: the group starts without images
NewGroup_NoImages(event) ==
    [timestampStart |-> toString(event.timestamp),
     timestampEnd |-> toString(event.timestamp),
     images |-> <<>>,
     details |-> Spread(event.details, [duration |-> calculateDuration(<<event>>)])]
    @@ event

\* lines 939-945 and 956-962: the group a row opens
NewGroup(event) ==
    [timestampStart |-> toString(event.timestamp),
     timestampEnd |-> toString(event.timestamp),
     images |-> ImagesOf(event),
     details |-> Spread(event.details, [duration |-> calculateDuration(<<event>>)])]
    @@ event

\* mutant of AbsorbInto: the duration is not recomputed
AbsorbInto_StaleDuration(combinedEvents, currentGroup, event) ==
    [currentGroup EXCEPT
        !.timestampEnd = toString(event.timestamp),
        !.images = @ \o ImagesOf(event)]

\* mutant of AbsorbInto: the group takes the timestamp of the absorbed row
AbsorbInto_MovesTimestamp(combinedEvents, currentGroup, event) ==
    [currentGroup EXCEPT
        !.timestamp = event.timestamp,
        !.timestampEnd = toString(event.timestamp),
        !.images = @ \o ImagesOf(event),
        !.details = [@ EXCEPT !.duration =
                        calculateDuration(combinedEvents \o <<currentGroup, event>>)]]

\* lines 947-953: the open group after it absorbed a row
AbsorbInto(combinedEvents, currentGroup, event) ==
    [currentGroup EXCEPT
        !.timestampEnd = toString(event.timestamp),
        !.images = @ \o ImagesOf(event),
        !.details = [@ EXCEPT !.duration =
                        calculateDuration(combinedEvents \o <<currentGroup, event>>)]]

\* the loop's locals before the first iteration; open stands for
\* currentGroup !== null.  closedIds and openIds are history: the ids of
\* the rows each group absorbed.
LoopStart ==
    [combinedEvents |-> <<>>, open |-> FALSE, currentGroup |-> <<>>,
     closedIds |-> <<>>, openIds |-> <<>>]

\* mutant of LoopStep: a row that the open group does not absorb is offered
\* to the groups closed before
LoopStep_ReopensClosed(st, event) ==
    IF ~validateEventDetails(event.details)
    THEN st
    ELSE IF ~st.open
    THEN [st EXCEPT !.open = TRUE,
                    !.currentGroup = NewGroup(event),
                    !.openIds = <<event.id>>]
    ELSE IF isSimilar(st.currentGroup, event)
    THEN [st EXCEPT !.currentGroup = AbsorbInto(st.combinedEvents, @, event),
                    !.openIds = Append(@, event.id)]
    ELSE IF \E i \in DOMAIN st.combinedEvents : isSimilar(st.combinedEvents[i], event)
    THEN LET i == CHOOSE i \in DOMAIN st.combinedEvents :
                      isSimilar(st.combinedEvents[i], event)
         IN  [st EXCEPT !.combinedEvents[i] = AbsorbInto(<<>>, @, event),
                        !.closedIds[i] = Append(@, event.id)]
    ELSE [st EXCEPT !.combinedEvents = Append(@, st.currentGroup),
                    !.closedIds = Append(@, st.openIds),
                    !.currentGroup = NewGroup(event),
                    !.openIds = <<event.id>>]

\* lines 915-963: one iteration of the loop
LoopStep(st, event) ==
    IF ~validateEventDetails(event.details)
    THEN st
    ELSE IF ~st.open
    THEN [st EXCEPT !.open = TRUE,
                    !.currentGroup = NewGroup(event),
                    !.openIds = <<event.id>>]
    ELSE IF isSimilar(st.currentGroup, event)
    THEN [st EXCEPT !.currentGroup = AbsorbInto(st.combinedEvents, @, event),
                    !.openIds = Append(@, event.id)]
    ELSE [st EXCEPT !.combinedEvents = Append(@, st.currentGroup),
                    !.closedIds = Append(@, st.openIds),
                    !.currentGroup = NewGroup(event),
                    !.openIds = <<event.id>>]

\* lines 915-966: the loop over the sorted rows and the push of the last
\* open group
RECURSIVE Loop(_)
Loop(rows) ==
    IF rows = <<>> THEN LoopStart
    ELSE LoopStep(Loop(SubSeq(rows, 1, Len(rows) - 1)), rows[Len(rows)])

CombineEvents(rows) ==
    LET st == Loop(rows)
    IN  IF st.open
        THEN [combinedEvents |-> Append(st.combinedEvents, st.currentGroup),
              memberIds |-> Append(st.closedIds, st.openIds)]
        ELSE [combinedEvents |-> st.combinedEvents, memberIds |-> st.closedIds]

\* lines 968-976: the timestamp of a group becomes a decimal string
SerializeGroup(g) == [g EXCEPT !.timestamp = toString(@)]

NoRecResponse ==
    [handler |-> "", status |-> 0, data |-> <<>>, memberIds |-> <<>>, total |-> 0]

\* the per-event labelEvent before its request arrives; labeledEvents is
\* its local array of the rows it inserted
NoPerEvent ==
    [pc |-> "idle", req |-> BaseBody, idx |-> 0, labeledEvents |-> <<>>,
     response |-> NoReply, copyLog |-> <<>>]

----------------------------------------------------------------------------
(* State machine *)

CopyFailedMessage == "Failed to copy image for event ID"

\* the second invocation before its request arrives; overlapped is
\* history: the first invocation was between two of its steps when the
\* request of the second arrived
NoPeer ==
    [pc |-> "idle", req |-> BaseBody, sortedEvents |-> <<>>, idx |-> 0,
     group |-> NoGroup, response |-> NoReply, copyLog |-> <<>>,
     overlapped |-> FALSE]

Init ==
    /\ events \in {ev \in [1..NumEvents -> UNION {EventRows(i) : i \in 1..NumEvents}] :
                       \A i \in 1..NumEvents : ev[i].id = i}
    /\ awsConfigured \in BOOLEAN
    /\ s3 = [k \in SourceKeys(events) |-> k]
    /\ labeledEvents = <<>>
    /\ pc = "idle"
    /\ req = BaseBody
    /\ sortedEvents = <<>>
    /\ idx = 0
    /\ group = NoGroup
    /\ response = NoReply
    /\ copyLog = <<>>
    /\ segsAtStart = 0
    /\ isRetry = FALSE
    /\ page = <<>>
    /\ recResponse = NoRecResponse
    /\ peer = NoPeer
    /\ perEvent = NoPerEvent

\* prisma.event.findMany({ where: { id: { in: eventIds } } }): the rows whose
\* id is listed, each once
FindMany(ids) == {events[i] : i \in Range(ids) \cap DOMAIN events}

\* lines 499-517 for the k-th event of the loop: the early return on invalid
\* details, the exception of extractS3Key (caught at lines 617-624), or the
\* handler waits for the CopyObjectCommand it has sent
EnterIteration(k, sorted, g) ==
    /\ sortedEvents' = sorted
    /\ idx' = k
    /\ group' = g
    /\ IF ~validateEventDetails(sorted[k].details)
       THEN /\ pc' = "idle"
            /\ response' = Reply(400, "Invalid event details for event ID",
                                 <<sorted[k].id>>, <<>>)
       ELSE IF ~ParsesAsUrl(sorted[k].details.image_path)
       THEN /\ pc' = "idle"
            /\ response' = Reply(500, "Failed to label events", <<>>, <<>>)
       ELSE /\ pc' = "copy"
            /\ response' = NoReply

\* mutant of LabelEvent: the rows found are counted against the distinct
\* ids of the request
LabelEvent_CountsDistinctIds(b, originalEvents) ==
    /\ pc = "idle"
    /\ Len(labeledEvents) < MaxSegments
    /\ req' = b
    /\ copyLog' = <<>>
    /\ segsAtStart' = Len(labeledEvents)
    /\ isRetry' = (b = req /\ response.message = CopyFailedMessage)
    /\ UNCHANGED <<page, recResponse, peer, perEvent>>
    /\ UNCHANGED <<events, awsConfigured, s3, labeledEvents>>
    /\ IF RejectionOf(b, awsConfigured) # NoReply
       THEN /\ response' = RejectionOf(b, awsConfigured)
            /\ pc' = "idle"
            /\ sortedEvents' = <<>>
            /\ idx' = 0
            /\ group' = NoGroup
       ELSE IF Len(originalEvents) # Cardinality(Range(b.eventIds.items))
       THEN /\ response' =
                 Reply(404, "Events with IDs not found",
                       Filter(b.eventIds.items,
                              {id \in Range(b.eventIds.items) :
                                  ~\E i \in DOMAIN originalEvents : originalEvents[i].id = id}),
                       <<>>)
            /\ pc' = "idle"
            /\ sortedEvents' = <<>>
            /\ idx' = 0
            /\ group' = NoGroup
       ELSE LET sorted == SortByTimestamp(originalEvents)
            IN  EnterIteration(1, sorted, InitialGroup(sorted))

\* POST /events/label is received: lines 325-517, up to the first await
\* whose outcome is not the handler's own (the first CopyObjectCommand).
\* originalEvents is the result of findMany, in the order the database
\* returns the rows.
LabelEvent(b, originalEvents) ==
    /\ pc = "idle"
    /\ Len(labeledEvents) < MaxSegments
    /\ req' = b
    /\ copyLog' = <<>>
    /\ segsAtStart' = Len(labeledEvents)
    /\ isRetry' = (b = req /\ response.message = CopyFailedMessage)
    /\ UNCHANGED <<page, recResponse, peer, perEvent>>
    /\ UNCHANGED <<events, awsConfigured, s3, labeledEvents>>
    /\ IF RejectionOf(b, awsConfigured) # NoReply
       THEN /\ response' = RejectionOf(b, awsConfigured)
            /\ pc' = "idle"
            /\ sortedEvents' = <<>>
            /\ idx' = 0
            /\ group' = NoGroup
       ELSE IF Len(originalEvents) # Len(b.eventIds.items)
       THEN /\ response' =
                 Reply(404, "Events with IDs not found",
                       Filter(b.eventIds.items,
                              {id \in Range(b.eventIds.items) :
                                  ~\E i \in DOMAIN originalEvents : originalEvents[i].id = id}),
                       <<>>)
            /\ pc' = "idle"
            /\ sortedEvents' = <<>>
            /\ idx' = 0
            /\ group' = NoGroup
       ELSE LET sorted == SortByTimestamp(originalEvents)
            IN  EnterIteration(1, sorted, InitialGroup(sorted))

\* mutant of CopyObjectSucceeds: the object is moved, the source removed
CopyObjectSucceeds_Move ==
    /\ pc = "copy"
    /\ LET event == sortedEvents[idx]
           cmd == CopyCommand(event)
           g == GroupAfterCopy(group, event, sortedEvents)
       IN  /\ cmd.CopySource.key \in DOMAIN s3
           /\ s3' = [k \in (DOMAIN s3 \cup {cmd.Key}) \ {cmd.CopySource.key} |->
                         IF k = cmd.Key THEN s3[cmd.CopySource.key] ELSE s3[k]]
           /\ copyLog' = Append(copyLog, [cmd |-> cmd, eventId |-> event.id, ok |-> TRUE])
           /\ IF idx < Len(sortedEvents)
              THEN EnterIteration(idx + 1, sortedEvents, g)
              ELSE /\ pc' = "create"
                   /\ group' = g
                   /\ response' = NoReply
                   /\ UNCHANGED <<sortedEvents, idx>>
    /\ UNCHANGED <<page, recResponse, peer, perEvent>>
    /\ UNCHANGED <<events, awsConfigured, labeledEvents, req, segsAtStart, isRetry>>

\* S3 executes the pending CopyObjectCommand; lines 537-572 follow, and the
\* next iteration of the loop up to its own CopyObjectCommand
CopyObjectSucceeds ==
    /\ pc = "copy"
    /\ LET event == sortedEvents[idx]
           cmd == CopyCommand(event)
           g == GroupAfterCopy(group, event, sortedEvents)
       IN  /\ cmd.CopySource.key \in DOMAIN s3
           /\ s3' = (cmd.Key :> s3[cmd.CopySource.key]) @@ s3
           /\ copyLog' = Append(copyLog, [cmd |-> cmd, eventId |-> event.id, ok |-> TRUE])
           /\ IF idx < Len(sortedEvents)
              THEN EnterIteration(idx + 1, sortedEvents, g)
              ELSE /\ pc' = "create"
                   /\ group' = g
                   /\ response' = NoReply
                   /\ UNCHANGED <<sortedEvents, idx>>
    /\ UNCHANGED <<page, recResponse, peer, perEvent>>
    /\ UNCHANGED <<events, awsConfigured, labeledEvents, req, segsAtStart, isRetry>>

\* mutant of CopyObjectFails: the catch block does not return and the loop
\* goes on
CopyObjectFails_Swallowed ==
    /\ pc = "copy"
    /\ copyLog' = Append(copyLog, [cmd |-> CopyCommand(sortedEvents[idx]),
                                   eventId |-> sortedEvents[idx].id, ok |-> FALSE])
    /\ IF idx < Len(sortedEvents)
       THEN EnterIteration(idx + 1, sortedEvents, group)
       ELSE /\ pc' = "create"
            /\ response' = NoReply
            /\ UNCHANGED <<sortedEvents, idx, group>>
    /\ UNCHANGED <<page, recResponse, peer, perEvent>>
    /\ UNCHANGED <<events, awsConfigured, s3, labeledEvents, req, segsAtStart, isRetry>>

\* mutant of CopyObjectFails: the copies made so far are deleted again
CopyObjectFails_Rollback ==
    /\ pc = "copy"
    /\ copyLog' = Append(copyLog, [cmd |-> CopyCommand(sortedEvents[idx]),
                                   eventId |-> sortedEvents[idx].id, ok |-> FALSE])
    /\ s3' = [k \in DOMAIN s3 \ {copyLog[i].cmd.Key : i \in DOMAIN copyLog} |-> s3[k]]
    /\ response' = Reply(500, CopyFailedMessage, <<sortedEvents[idx].id>>, <<>>)
    /\ pc' = "idle"
    /\ UNCHANGED <<page, recResponse, peer, perEvent>>
    /\ UNCHANGED <<events, awsConfigured, labeledEvents, req, sortedEvents,
                   idx, group, segsAtStart, isRetry>>

\* mutant of CopyObjectFails: a rejected command is sent once more
CopyObjectFails_Retry ==
    /\ pc = "copy"
    /\ copyLog' = Append(copyLog, [cmd |-> CopyCommand(sortedEvents[idx]),
                                   eventId |-> sortedEvents[idx].id, ok |-> FALSE])
    /\ IF \E i \in DOMAIN copyLog : ~copyLog[i].ok
       THEN /\ response' = Reply(500, CopyFailedMessage, <<sortedEvents[idx].id>>, <<>>)
            /\ pc' = "idle"
       ELSE UNCHANGED <<response, pc>>
    /\ UNCHANGED <<page, recResponse, peer, perEvent>>
    /\ UNCHANGED <<events, awsConfigured, s3, labeledEvents, req, sortedEvents,
                   idx, group, segsAtStart, isRetry>>

\* s3Client.send rejects: lines 526-535
CopyObjectFails ==
    /\ pc = "copy"
    /\ copyLog' = Append(copyLog, [cmd |-> CopyCommand(sortedEvents[idx]),
                                   eventId |-> sortedEvents[idx].id, ok |-> FALSE])
    /\ response' = Reply(500, CopyFailedMessage, <<sortedEvents[idx].id>>, <<>>)
    /\ pc' = "idle"
    /\ UNCHANGED <<page, recResponse, peer, perEvent>>
    /\ UNCHANGED <<events, awsConfigured, s3, labeledEvents, req, sortedEvents,
                   idx, group, segsAtStart, isRetry>>

\* mutant of CreateSucceeds: a row with the same originalEventId is
\* replaced instead of a new row being added
CreateSucceeds_Upsert ==
    /\ pc = "create"
    /\ LET old == {r \in DOMAIN labeledEvents :
                      labeledEvents[r].originalEventId = sortedEvents[1].id}
           id == IF old = {} THEN Len(labeledEvents) + 1 ELSE Min(old)
           row == LabeledEventRow(id, req, group, sortedEvents)
       IN  /\ labeledEvents' = IF old = {} THEN Append(labeledEvents, row)
                               ELSE [labeledEvents EXCEPT ![id] = row]
           /\ response' = Reply(201, "Events labeled successfully as a single group",
                                <<>>, <<LabeledResponse(row, group)>>)
    /\ pc' = "idle"
    /\ UNCHANGED <<page, recResponse, peer, perEvent>>
    /\ UNCHANGED <<events, awsConfigured, s3, req, sortedEvents, idx, group,
                   copyLog, segsAtStart, isRetry>>

\* prisma.labeledEvent.create inserts the row: lines 575-616
CreateSucceeds ==
    /\ pc = "create"
    /\ LET row == LabeledEventRow(Len(labeledEvents) + 1, req, group, sortedEvents)
       IN  /\ labeledEvents' = Append(labeledEvents, row)
           /\ response' = Reply(201, "Events labeled successfully as a single group",
                                <<>>, <<LabeledResponse(row, group)>>)
    /\ pc' = "idle"
    /\ UNCHANGED <<page, recResponse, peer, perEvent>>
    /\ UNCHANGED <<events, awsConfigured, s3, req, sortedEvents, idx, group,
                   copyLog, segsAtStart, isRetry>>

\* mutant of CreateFails: the catch block deletes the copied objects
CreateFails_Cleanup ==
    /\ pc = "create"
    /\ s3' = [k \in DOMAIN s3 \ {copyLog[i].cmd.Key : i \in DOMAIN copyLog} |-> s3[k]]
    /\ response' = Reply(500, "Failed to label events", <<>>, <<>>)
    /\ pc' = "idle"
    /\ UNCHANGED <<page, recResponse, peer, perEvent>>
    /\ UNCHANGED <<events, awsConfigured, labeledEvents, req, sortedEvents,
                   idx, group, copyLog, segsAtStart, isRetry>>

\* prisma.labeledEvent.create rejects: the catch block, lines 617-624
CreateFails ==
    /\ pc = "create"
    /\ response' = Reply(500, "Failed to label events", <<>>, <<>>)
    /\ pc' = "idle"
    /\ UNCHANGED <<page, recResponse, peer, perEvent>>
    /\ UNCHANGED <<events, awsConfigured, s3, labeledEvents, req, sortedEvents,
                   idx, group, copyLog, segsAtStart, isRetry>>

Next ==
    \/ \E b \in Bodies :
           \E originalEvents \in UNION {Perms(FindMany(ids)) : ids \in {b.eventIds.items}} :
               LabelEvent(b, originalEvents)
    \/ CopyObjectSucceeds
    \/ CopyObjectFails
    \/ CreateSucceeds
    \/ CreateFails

Spec == Init /\ [][Next]_vars

----------------------------------------------------------------------------
(* Two invocations of labelEvent in flight at once.  Node runs one handler *)
(* until its next await, so the steps of the two invocations interleave at *)
(* the awaits: the fetch, each copy, the insert.  The second invocation    *)
(* runs the same code on its own locals, kept in peer.                     *)

\* the variables of the first invocation and of the stores
labelVars ==
    <<events, awsConfigured, s3, labeledEvents, pc, req, sortedEvents, idx,
      group, response, copyLog, segsAtStart, isRetry>>

\* the requests of the second invocation: a Song over the last event, and
\* over the last and the first event
PeerBodies ==
    {[BaseBody EXCEPT !.eventIds = IdArray(ids)] :
        ids \in {<<NumEvents>>, <<NumEvents, 1>>}}

\* lines 499-517 for the k-th event, on the locals h of the invocation
PeerEnterIteration(h, k, sorted, g) ==
    LET at == [h EXCEPT !.sortedEvents = sorted, !.idx = k, !.group = g]
    IN  IF ~validateEventDetails(sorted[k].details)
        THEN [at EXCEPT !.pc = "idle",
                        !.response = Reply(400, "Invalid event details for event ID",
                                           <<sorted[k].id>>, <<>>)]
        ELSE IF ~ParsesAsUrl(sorted[k].details.image_path)
        THEN [at EXCEPT !.pc = "idle",
                        !.response = Reply(500, "Failed to label events", <<>>, <<>>)]
        ELSE [at EXCEPT !.pc = "copy", !.response = NoReply]

\* lines 325-517: the request arrives, is validated, the events are fetched
PeerLabelEvent(b, originalEvents) ==
    /\ peer.pc = "idle"
    /\ peer.response = NoReply
    /\ Len(labeledEvents) < MaxSegments
    /\ LET h == [peer EXCEPT !.req = b, !.copyLog = <<>>, !.overlapped = (pc # "idle"),
                             !.sortedEvents = <<>>, !.idx = 0, !.group = NoGroup]
       IN  peer' =
               IF RejectionOf(b, awsConfigured) # NoReply
               THEN [h EXCEPT !.response = RejectionOf(b, awsConfigured)]
               ELSE IF Len(originalEvents) # Len(b.eventIds.items)
               THEN [h EXCEPT !.response =
                        Reply(404, "Events with IDs not found",
                              Filter(b.eventIds.items,
                                     {id \in Range(b.eventIds.items) :
                                         ~\E i \in DOMAIN originalEvents :
                                             originalEvents[i].id = id}),
                              <<>>)]
               ELSE LET sorted == SortByTimestamp(originalEvents)
                    IN  PeerEnterIteration(h, 1, sorted, InitialGroup(sorted))
    /\ UNCHANGED <<labelVars, page, recResponse, perEvent>>

\* lines 519-548: the CopyObjectCommand of the second invocation resolves
PeerCopyObjectSucceeds ==
    /\ peer.pc = "copy"
    /\ LET event == peer.sortedEvents[peer.idx]
           cmd == CopyCommand(event)
           g == GroupAfterCopy(peer.group, event, peer.sortedEvents)
           h == [peer EXCEPT !.copyLog =
                    Append(@, [cmd |-> cmd, eventId |-> event.id, ok |-> TRUE])]
       IN  /\ cmd.CopySource.key \in DOMAIN s3
           /\ s3' = (cmd.Key :> s3[cmd.CopySource.key]) @@ s3
           /\ peer' = IF peer.idx < Len(peer.sortedEvents)
                      THEN PeerEnterIteration(h, peer.idx + 1, peer.sortedEvents, g)
                      ELSE [h EXCEPT !.pc = "create", !.group = g, !.response = NoReply]
    /\ UNCHANGED <<events, awsConfigured, labeledEvents, pc, req, sortedEvents, idx,
                   group, response, copyLog, segsAtStart, isRetry, page, recResponse, perEvent>>

\* lines 526-535: it rejects
PeerCopyObjectFails ==
    /\ peer.pc = "copy"
    /\ peer' = [peer EXCEPT
                   !.copyLog = Append(@, [cmd |-> CopyCommand(peer.sortedEvents[peer.idx]),
                                          eventId |-> peer.sortedEvents[peer.idx].id,
                                          ok |-> FALSE]),
                   !.response = Reply(500, CopyFailedMessage,
                                      <<peer.sortedEvents[peer.idx].id>>, <<>>),
                   !.pc = "idle"]
    /\ UNCHANGED <<labelVars, page, recResponse, perEvent>>

\* mutant of PeerCreateSucceeds: the group is a variable of the module,
\* shared by the invocations
PeerCreateSucceeds_SharedGroup ==
    /\ peer.pc = "create"
    /\ LET row == LabeledEventRow(Len(labeledEvents) + 1, peer.req, group,
                                  peer.sortedEvents)
       IN  /\ labeledEvents' = Append(labeledEvents, row)
           /\ peer' = [peer EXCEPT
                          !.response = Reply(201, "Events labeled successfully as a single group",
                                             <<>>, <<LabeledResponse(row, group)>>),
                          !.pc = "idle"]
    /\ UNCHANGED <<events, awsConfigured, s3, pc, req, sortedEvents, idx, group,
                   response, copyLog, segsAtStart, isRetry, page, recResponse, perEvent>>

\* mutant of PeerCreateSucceeds: an event may be the reference of one row
PeerCreateSucceeds_UniqueEvent ==
    /\ peer.pc = "create"
    /\ \A r \in DOMAIN labeledEvents :
           labeledEvents[r].originalEventId # peer.sortedEvents[1].id
    /\ LET row == LabeledEventRow(Len(labeledEvents) + 1, peer.req, peer.group,
                                  peer.sortedEvents)
       IN  /\ labeledEvents' = Append(labeledEvents, row)
           /\ peer' = [peer EXCEPT
                          !.response = Reply(201, "Events labeled successfully as a single group",
                                             <<>>, <<LabeledResponse(row, peer.group)>>),
                          !.pc = "idle"]
    /\ UNCHANGED <<events, awsConfigured, s3, pc, req, sortedEvents, idx, group,
                   response, copyLog, segsAtStart, isRetry, page, recResponse, perEvent>>

\* lines 575-616: the insert of the second invocation
PeerCreateSucceeds ==
    /\ peer.pc = "create"
    /\ LET row == LabeledEventRow(Len(labeledEvents) + 1, peer.req, peer.group,
                                  peer.sortedEvents)
       IN  /\ labeledEvents' = Append(labeledEvents, row)
           /\ peer' = [peer EXCEPT
                          !.response = Reply(201, "Events labeled successfully as a single group",
                                             <<>>, <<LabeledResponse(row, peer.group)>>),
                          !.pc = "idle"]
    /\ UNCHANGED <<events, awsConfigured, s3, pc, req, sortedEvents, idx, group,
                   response, copyLog, segsAtStart, isRetry, page, recResponse, perEvent>>

\* lines 617-624: it rejects
PeerCreateFails ==
    /\ peer.pc = "create"
    /\ peer' = [peer EXCEPT !.response = Reply(500, "Failed to label events", <<>>, <<>>),
                            !.pc = "idle"]
    /\ UNCHANGED <<labelVars, page, recResponse, perEvent>>

\* the events table of the concurrent runs: every event has valid details
ConcInit ==
    /\ Init
    /\ awsConfigured
    /\ \A i \in DOMAIN events :
           /\ validateEventDetails(events[i].details)
           /\ ParsesAsUrl(events[i].details.image_path)

PeerNext ==
    \/ \E b \in PeerBodies :
           \E originalEvents \in Perms(FindMany(b.eventIds.items)) :
               PeerLabelEvent(b, originalEvents)
    \/ PeerCopyObjectSucceeds
    \/ PeerCopyObjectFails
    \/ PeerCreateSucceeds
    \/ PeerCreateFails

\* the requests of the first invocation in the concurrent runs: the
\* accepted fields over the first event, and over the first and the last
ConcBodies ==
    {[f EXCEPT !.eventIds = IdArray(ids)] :
        f \in AcceptedFieldChoices, ids \in {<<1>>, <<1, NumEvents>>}}

\* each invocation handles one request
ConcNext ==
    \/ /\ response = NoReply
       /\ \E b \in ConcBodies :
              \E originalEvents \in Perms(FindMany(b.eventIds.items)) :
                  LabelEvent(b, originalEvents)
    \/ CopyObjectSucceeds
    \/ CopyObjectFails
    \/ CreateSucceeds
    \/ CreateFails
    \/ PeerNext

ConcurrentSpec == ConcInit /\ [][ConcNext]_vars

----------------------------------------------------------------------------
(* The GET handlers of the labeled events, over tables of labeled_events   *)
(* whose rows any writer of the table may have stored.                     *)

\* the URL of the labeled frame of row id
SegmentUrl(id) ==
    LabeledUrl(<<"Nepal_Frames", "/", "labeled_frames", "/", "frame">>
                   \o toString(id) \o <<".jpg">>)

\* a row as labelEvent stores it for a Song, except that date and begin do
\* not depend on the timestamp
BaseSegment(id, t) ==
    [id |-> id,
     deviceId |-> "d1",
     originalEventId |-> id,
     timestamp |-> t,
     date |-> 0,
     begin |-> <<0, 0, 0>>,
     format |-> <<"1", "2">>,
     content |-> <<"1", "2", "3">>,
     title |-> "title",
     episodeId |-> "",
     seasonId |-> "",
     repeat |-> FALSE,
     detectionType |-> "Song",
     details |-> [score |-> 1, image_path |-> SegmentUrl(id), channel_name |-> "ch",
                  images |-> <<SegmentUrl(id)>>, duration |-> 0,
                  songName |-> "song", artistName |-> "artist"],
     labeledBy |-> "operator"]

\* the row with one compared column changed
ColumnVariants(id, t) ==
    LET r == BaseSegment(id, t)
    IN  {[r EXCEPT !.deviceId = "d2"],
         [r EXCEPT !.detectionType = "Error"],
         [r EXCEPT !.date = 1],
         [r EXCEPT !.begin = <<0, 0, 1>>],
         [r EXCEPT !.format = <<"3", "4">>],
         [r EXCEPT !.content = <<>>],
         [r EXCEPT !.title = "other"],
         [r EXCEPT !.episodeId = "e1"],
         [r EXCEPT !.seasonId = "s1"],
         [r EXCEPT !.repeat = TRUE]}

\* the row with one compared sub-field of details changed
SubFieldVariants(id, t) ==
    LET r == BaseSegment(id, t)
    IN  {[r EXCEPT !.details = (k :> "other") @@ @] : k \in ComparedSubFields}

\* the row with date and begin derived from the timestamp
EngineSegment(id, t) ==
    [BaseSegment(id, t) EXCEPT !.date = formatTimestamp(t).date,
                               !.begin = formatTimestamp(t).begin]

\* the row without details.images
WithoutImages(id, t) ==
    [BaseSegment(id, t) EXCEPT !.details =
        [k \in DOMAIN @ \ {"images"} |-> @[k]]]

\* the row whose details fail validateEventDetails
InvalidSegment(id, t) ==
    [BaseSegment(id, t) EXCEPT !.details =
        [k \in DOMAIN @ \ {"score"} |-> @[k]]]

\* the timestamps of the rows: distances below, at and above MergeWindow
SegmentTimes == {0, 30, 61, 90}

FewSegments(id) ==
    UNION {{BaseSegment(id, t), [BaseSegment(id, t) EXCEPT !.title = "other"],
            InvalidSegment(id, t)} : t \in SegmentTimes}

AllSegments(id) ==
    UNION {{BaseSegment(id, t), EngineSegment(id, t), WithoutImages(id, t),
            InvalidSegment(id, t)}
           \cup ColumnVariants(id, t) \cup SubFieldVariants(id, t) : t \in SegmentTimes}

\* the tables read: up to MaxRows rows of the few kinds, two rows of
\* which the second is of any kind, and two or MaxRows rows as labelEvent
\* stores them
Tables ==
    UNION {{tb \in [1..n -> UNION {FewSegments(i) : i \in 1..n}] :
               \A i \in 1..n : tb[i].id = i} : n \in 0..MaxRows}
    \cup {<<a, b>> : a \in FewSegments(1), b \in AllSegments(2)}
    \cup UNION {{tb \in [1..n -> UNION {{EngineSegment(i, t) : t \in SegmentTimes} :
                                            i \in 1..n}] :
                    \A i \in 1..n : tb[i].id = i} : n \in {2, MaxRows}}

\* the query of a GET: sort=id with an order, page 1 with a limit
Queries == [order : {"asc", "desc"}, limit : {1, MaxRows}]

Reverse(q) == [i \in DOMAIN q |-> q[Len(q) + 1 - i]]

\* prisma.labeledEvent.findMany({ orderBy, skip: 0, take: limit })
FindManyLabeled(q) ==
    LET ordered == IF q.order = "asc" THEN labeledEvents ELSE Reverse(labeledEvents)
    IN  SubSeq(ordered, 1, Min({q.limit, Len(ordered)}))

\* the body of both GET handlers: the fetch, the in-place sort, the loop
\* and the response; ok = FALSE when the query throws (catch block)
GetHandler(name, q, ok) ==
    /\ IF ok
       THEN LET sorted == SortByTimestamp(FindManyLabeled(q))
                c == CombineEvents(sorted)
            IN  /\ page' = sorted
                /\ recResponse' =
                       [handler |-> name, status |-> 200,
                        data |-> [i \in DOMAIN c.combinedEvents |->
                                     SerializeGroup(c.combinedEvents[i])],
                        memberIds |-> c.memberIds,
                        total |-> Len(labeledEvents)]
       ELSE /\ page' = <<>>
            /\ recResponse' = [NoRecResponse EXCEPT !.handler = name, !.status = 500]
    /\ UNCHANGED <<labelVars, peer, perEvent>>

GetLabeledEvents ==
    \E q \in Queries : \E ok \in BOOLEAN : GetHandler("getLabeledEvents", q, ok)

GetManuallyLabeledEvents ==
    \E q \in Queries : \E ok \in BOOLEAN : GetHandler("getManuallyLabeledEvents", q, ok)

RecInit ==
    /\ events = [i \in 1..NumEvents |->
                    [id |-> i, deviceId |-> "d1", timestamp |-> 1,
                     details |-> [score |-> 1,
                                  image_path |-> FrameUrl("unrecognized_frames", i),
                                  channel_name |-> "ch"]]]
    /\ awsConfigured = TRUE
    /\ s3 = [k \in SourceKeys(events) |-> k]
    /\ labeledEvents \in Tables
    /\ pc = "idle"
    /\ req = BaseBody
    /\ sortedEvents = <<>>
    /\ idx = 0
    /\ group = NoGroup
    /\ response = NoReply
    /\ copyLog = <<>>
    /\ segsAtStart = Len(labeledEvents)
    /\ isRetry = FALSE
    /\ page = <<>>
    /\ recResponse = NoRecResponse
    /\ peer = NoPeer
    /\ perEvent = NoPerEvent

RecNext ==
    \/ GetLabeledEvents
    \/ GetManuallyLabeledEvents

ReconcilerSpec == RecInit /\ [][RecNext]_vars

----------------------------------------------------------------------------
(* getEvents and generateReport, and all five handlers on the stores *)

\* the queries of getEvents: sort=id with an order, page 1 with a limit,
\* and a type parameter that is absent or not a number
EventQueries == [order : {"asc", "desc"}, limit : {1, NumEvents}, type : {"", "x"}]

\* prisma.event.findMany({ orderBy, skip: 0, take: limit })
FindManyEvents(q) ==
    LET ordered == IF q.order = "asc" THEN events ELSE Reverse(events)
    IN  SubSeq(ordered, 1, Min({q.limit, Len(ordered)}))

\* stream.controller.ts lines 283-296: an event as getEvents returns it
SerializeEvent(event) ==
    [date |-> formatTimestamp(event.timestamp).date,
     begin |-> formatTimestamp(event.timestamp).begin,
     timestamp |-> toString(event.timestamp),
     details |-> Spread(event.details, [duration |-> calculateDuration(<<event>>)])]
    @@ event

\* getEvents, stream.controller.ts lines 195-318
GetEvents ==
    \E q \in EventQueries : \E ok \in BOOLEAN :
        /\ recResponse' =
               IF q.type # ""
               THEN [NoRecResponse EXCEPT !.handler = "getEvents", !.status = 400]
               ELSE IF ~ok
               THEN [NoRecResponse EXCEPT !.handler = "getEvents", !.status = 500]
               ELSE [handler |-> "getEvents", status |-> 200,
                     data |-> [i \in DOMAIN FindManyEvents(q) |->
                                  SerializeEvent(FindManyEvents(q)[i])],
                     memberIds |-> <<>>,
                     total |-> Len(events)]
        /\ UNCHANGED <<labelVars, page, peer, perEvent>>

\* the query of generateReport: a date that is missing, malformed or the
\* day `day`, and a deviceId that may be missing
ReportQueries ==
    [date : {[text |-> "", day |-> 0], [text |-> "not a date", day |-> 0],
             [text |-> "YYYY-MM-DD", day |-> 0]},
     deviceId : {"", "d1"}]

\* the timestamp lies in the day of the query (0:00:00 to 23:59:59)
InDay(timestamp, day) == timestamp \in (day * 86400)..(day * 86400 + 86399)

\* reports.controller.ts lines 75-158: the counts of the report
ReportData(q) ==
    LET labeled == {r \in DOMAIN labeledEvents :
                       /\ labeledEvents[r].deviceId = q.deviceId
                       /\ InDay(labeledEvents[r].timestamp, q.date.day)}
        ofDay == {i \in DOMAIN events :
                     /\ events[i].deviceId = q.deviceId
                     /\ InDay(events[i].timestamp, q.date.day)}
        labeledOriginalEventIds == {labeledEvents[r].originalEventId : r \in labeled}
    IN  [date |-> q.date,
         deviceId |-> q.deviceId,
         counts |-> [t \in DetectionTypes |->
                        Cardinality({r \in labeled : labeledEvents[r].detectionType = t})],
         unlabeledCount |-> Cardinality({i \in ofDay : events[i].id \notin labeledOriginalEventIds}),
         totalEvents |-> Cardinality(ofDay)]

\* generateReport, reports.controller.ts lines 25-200
GenerateReport ==
    \E q \in ReportQueries : \E ok \in BOOLEAN :
        /\ recResponse' =
               IF q.date.text = "" \/ q.deviceId = "" \/ q.date.text # "YYYY-MM-DD"
               THEN [NoRecResponse EXCEPT !.handler = "generateReport", !.status = 400]
               ELSE IF ~ok
               THEN [NoRecResponse EXCEPT !.handler = "generateReport", !.status = 500]
               ELSE [handler |-> "generateReport", status |-> 200,
                     data |-> <<ReportData(q)>>, memberIds |-> <<>>,
                     total |-> 1]
        /\ UNCHANGED <<labelVars, page, peer, perEvent>>

\* all handlers of the routes; a run makes one GET, at any moment
StoreNext ==
    \/ \E b \in ConcBodies :
           \E originalEvents \in Perms(FindMany(b.eventIds.items)) :
               LabelEvent(b, originalEvents)
    \/ CopyObjectSucceeds
    \/ CopyObjectFails
    \/ CreateSucceeds
    \/ CreateFails
    \/ recResponse.status = 0 /\ GetLabeledEvents
    \/ recResponse.status = 0 /\ GetManuallyLabeledEvents
    \/ recResponse.status = 0 /\ GetEvents
    \/ recResponse.status = 0 /\ GenerateReport

StoreSpec == ConcInit /\ [][StoreNext]_vars

----------------------------------------------------------------------------
(* One label request with detail objects of several categories *)

\* a Song whose songDetails carry a key of the event details, with a
\* detail object of another category; a Program Content with episodeId in
\* the body and seasonId in its detail object; a Commercial Break with its
\* detail object
DetailedFieldChoices ==
    {[BaseBody EXCEPT
         !.songDetails = Details([songName |-> "song", artistName |-> "artist",
                                  channel_name |-> "other channel"]),
         !.errorDetails = Details([errorType |-> "e"])],
     [BaseBody EXCEPT
         !.detectionType = "Program Content",
         !.episodeId = "e1",
         !.programContentDetails =
             Details([description |-> "d", formatType |-> "Film",
                      contentType |-> "Short Film", seasonId |-> "s1"])],
     [BaseBody EXCEPT
         !.detectionType = "Commercial Break",
         !.commercialBreakDetails = Details([category |-> "c", sector |-> "s"])]}

DetailedBodies ==
    {[f EXCEPT !.eventIds = IdArray(ids)] :
        f \in AcceptedFieldChoices \cup DetailedFieldChoices,
        ids \in {<<1>>, <<1, NumEvents>>, <<NumEvents, 1>>}}

SingleNext ==
    \/ /\ response = NoReply
       /\ \E b \in DetailedBodies :
              \E originalEvents \in Perms(FindMany(b.eventIds.items)) :
                  LabelEvent(b, originalEvents)
    \/ CopyObjectSucceeds
    \/ CopyObjectFails
    \/ CreateSucceeds
    \/ CreateFails

\* the events table holds events of two devices, with valid details
MixedDevices == {"d1", "d2"}

SingleInit ==
    /\ events \in {ev \in [1..NumEvents ->
                              UNION {{[id |-> i, deviceId |-> d, timestamp |-> t,
                                       details |-> [score |-> 1,
                                                    image_path |-> FrameUrl(area, i),
                                                    channel_name |-> "ch"]] :
                                         d \in MixedDevices, t \in 1..MaxTs,
                                         area \in UnlabeledFrames} : i \in 1..NumEvents}] :
                       \A i \in 1..NumEvents : ev[i].id = i}
    /\ awsConfigured = TRUE
    /\ s3 = [k \in SourceKeys(events) |-> k]
    /\ labeledEvents = <<>>
    /\ pc = "idle"
    /\ req = BaseBody
    /\ sortedEvents = <<>>
    /\ idx = 0
    /\ group = NoGroup
    /\ response = NoReply
    /\ copyLog = <<>>
    /\ segsAtStart = 0
    /\ isRetry = FALSE
    /\ page = <<>>
    /\ recResponse = NoRecResponse
    /\ peer = NoPeer
    /\ perEvent = NoPerEvent

SingleRequestSpec == SingleInit /\ [][SingleNext]_vars

----------------------------------------------------------------------------
(* The labelEvent that creates one row per event (src/unnamed/part_005,    *)
(* lines 320-566).  Its validation of the request fields is that of        *)
(* RejectionOf without the check of the AWS credentials.                   *)

\* the text of a URL as a key: the whole string is one S3 key
UrlText(url) ==
    <<"https:", "/", "/", url.host[1], ".", url.host[2], ".", url.host[3], ".",
      url.host[4]>> \o url.pathname

\* lines 475-484: the command copies onto the key generateLabeledImagePath
\* returns, which is the URL of the labeled frame
PerEventCopyCommand(event) ==
    [Bucket |-> S3_BUCKET,
     CopySource |-> [bucket |-> S3_BUCKET,
                     key |-> extractS3Key(event.details.image_path)],
     Key |-> UrlText(generateLabeledImagePath(event.details.image_path))]

\* lines 502-518
PerEventDetails(b, event) ==
    Spread(Spread(event.details,
                  [original_image_path |-> event.details.image_path,
                   image_path |-> generateLabeledImagePath(event.details.image_path)]),
           CategoryFields(b))

\* lines 520-543: the data of prisma.labeledEvent.create, with the id the
\* table assigns
PerEventRow(id, b, event) ==
    [id |-> id,
     deviceId |-> event.deviceId,
     originalEventId |-> event.id,
     timestamp |-> event.timestamp,
     date |-> formatTimestamp(event.timestamp).date,
     begin |-> formatTimestamp(event.timestamp).begin,
     format |-> b.format,
     content |-> b.content,
     title |-> b.title,
     episodeId |-> IF b.detectionType = "Program Content"
                   THEN Or(b.episodeId, Field(b.programContentDetails, "episodeId"))
                   ELSE "",
     seasonId |-> IF b.detectionType = "Program Content"
                  THEN Or(b.seasonId, Field(b.programContentDetails, "seasonId"))
                  ELSE "",
     repeat |-> b.repeat,
     detectionType |-> b.detectionType,
     details |-> PerEventDetails(b, event),
     labeledBy |-> b.labeledBy]

\* lines 450-476 for the k-th id of the request, on the locals h: findUnique,
\* the early returns, the exception of extractS3Key (caught at lines
\* 559-565), or the handler waits for its CopyObjectCommand
PerEventEnterIteration(h, k) ==
    LET id == h.req.eventIds.items[k]
        at == [h EXCEPT !.idx = k]
    IN  IF id \notin DOMAIN events
        THEN [at EXCEPT !.pc = "idle",
                        !.response = Reply(404, "Event with ID not found", <<id>>, <<>>)]
        ELSE IF ~validateEventDetails(events[id].details)
        THEN [at EXCEPT !.pc = "idle",
                        !.response = Reply(400, "Invalid event details for event ID",
                                           <<id>>, <<>>)]
        ELSE IF ~ParsesAsUrl(events[id].details.image_path)
        THEN [at EXCEPT !.pc = "idle",
                        !.response = Reply(500, "Failed to label events", <<>>, <<>>)]
        ELSE [at EXCEPT !.pc = "copy", !.response = NoReply]

\* the request arrives: lines 320-476
PerEventLabelEvent(b) ==
    /\ perEvent.pc = "idle"
    /\ perEvent.response = NoReply
    /\ perEvent' =
           LET h == [perEvent EXCEPT !.req = b]
           IN  IF RejectionOf(b, TRUE) # NoReply
               THEN [h EXCEPT !.response = RejectionOf(b, TRUE)]
               ELSE PerEventEnterIteration(h, 1)
    /\ UNCHANGED <<labelVars, page, recResponse, peer>>

\* S3 executes the pending command: the handler goes on to the create
PerEventCopyObjectSucceeds ==
    /\ perEvent.pc = "copy"
    /\ LET cmd == PerEventCopyCommand(events[perEvent.req.eventIds.items[perEvent.idx]])
       IN  /\ cmd.CopySource.key \in DOMAIN s3
           /\ s3' = (cmd.Key :> s3[cmd.CopySource.key]) @@ s3
           /\ perEvent' = [perEvent EXCEPT
                  !.pc = "create",
                  !.copyLog = Append(@, [cmd |-> cmd,
                                         eventId |-> perEvent.req.eventIds.items[perEvent.idx],
                                         ok |-> TRUE])]
    /\ UNCHANGED <<events, awsConfigured, labeledEvents, pc, req, sortedEvents, idx,
                   group, response, copyLog, segsAtStart, isRetry, page, recResponse,
                   peer>>

\* s3Client.send rejects: lines 486-499
PerEventCopyObjectFails ==
    /\ perEvent.pc = "copy"
    /\ perEvent' = [perEvent EXCEPT
           !.pc = "idle",
           !.copyLog = Append(@, [cmd |-> PerEventCopyCommand(
                                             events[perEvent.req.eventIds.items[perEvent.idx]]),
                                  eventId |-> perEvent.req.eventIds.items[perEvent.idx],
                                  ok |-> FALSE]),
           !.response = Reply(500, CopyFailedMessage,
                              <<perEvent.req.eventIds.items[perEvent.idx]>>, <<>>)]
    /\ UNCHANGED <<labelVars, page, recResponse, peer>>

\* prisma.labeledEvent.create inserts the row: lines 520-557, and the next
\* iteration up to its CopyObjectCommand
PerEventCreateSucceeds ==
    /\ perEvent.pc = "create"
    /\ LET row == PerEventRow(Len(labeledEvents) + 1, perEvent.req,
                              events[perEvent.req.eventIds.items[perEvent.idx]])
           h == [perEvent EXCEPT
                    !.labeledEvents = Append(@, [labeledEvent |-> row,
                                                 timestamp |-> toString(row.timestamp)])]
       IN  /\ labeledEvents' = Append(labeledEvents, row)
           /\ perEvent' =
                  IF perEvent.idx < Len(perEvent.req.eventIds.items)
                  THEN PerEventEnterIteration(h, perEvent.idx + 1)
                  ELSE [h EXCEPT !.pc = "idle",
                                 !.response = Reply(201, "Events labeled successfully", <<>>,
                                                    h.labeledEvents)]
    /\ UNCHANGED <<events, awsConfigured, s3, pc, req, sortedEvents, idx, group,
                   response, copyLog, segsAtStart, isRetry, page, recResponse, peer>>

\* mutant of PerEventCreateFails: the rows the request inserted are deleted
PerEventCreateFails_Rollback ==
    /\ perEvent.pc = "create"
    /\ perEvent' = [perEvent EXCEPT
           !.pc = "idle",
           !.response = Reply(500, "Failed to label events", <<>>, <<>>)]
    /\ labeledEvents' = SubSeq(labeledEvents, 1,
                               Len(labeledEvents) - Len(perEvent.labeledEvents))
    /\ UNCHANGED <<events, awsConfigured, s3, pc, req, sortedEvents, idx, group,
                   response, copyLog, segsAtStart, isRetry, page, recResponse, peer>>

\* prisma.labeledEvent.create rejects: the catch block, lines 559-565
PerEventCreateFails ==
    /\ perEvent.pc = "create"
    /\ perEvent' = [perEvent EXCEPT
           !.pc = "idle",
           !.response = Reply(500, "Failed to label events", <<>>, <<>>)]
    /\ UNCHANGED <<labelVars, page, recResponse, peer>>

\* the requests: accepted and rejected fields over one id, two ids in both
\* orders, an id twice, and an id without event first or last
PerEventBodies ==
    {[f EXCEPT !.eventIds = IdArray(ids)] :
        f \in AcceptedFieldChoices,
        ids \in {<<1>>, <<1, NumEvents>>, <<NumEvents, 1>>, <<1, 1>>,
                 <<1, NumEvents + 1>>, <<NumEvents + 1, 1>>}}
    \cup {[f EXCEPT !.eventIds = IdArray(<<1>>)] : f \in RejectedFieldChoices}

PerEventNext ==
    \/ \E b \in PerEventBodies : PerEventLabelEvent(b)
    \/ PerEventCopyObjectSucceeds
    \/ PerEventCopyObjectFails
    \/ PerEventCreateSucceeds
    \/ PerEventCreateFails

PerEventSpec == Init /\ [][PerEventNext]_vars

----------------------------------------------------------------------------
(* Vocabulary of the properties *)

RequestedIds == Range(req.eventIds.items)

\* the handler has returned 201 for req
Labeled == pc = "idle" /\ response.status = 201

LastRow == labeledEvents[Len(labeledEvents)]

\* the event ids a row of labeled_events stores
StoredEventIds(row) == {row.originalEventId}

RequestedTimestamps == {events[id].timestamp : id \in RequestedIds \cap DOMAIN events}

----------------------------------------------------------------------------
(* C1 *)

\* C1: every label request whose N >= 1 ids are distinct and exist, whose
\* events carry valid details and whose N copies and insert succeed adds
\* exactly one row to labeled_events, and the set of original event ids
\* that row stores is the set of all N requested ids.
C1_OneRowStoringAllEventIds ==
    Labeled =>
        /\ Len(labeledEvents) = segsAtStart + 1
        /\ StoredEventIds(LastRow) = RequestedIds

----------------------------------------------------------------------------
(* C2 *)

\* C2: after a successful label request the segment's timestampStart is the
\* minimum and its timestampEnd the maximum timestamp of the member events,
\* whatever the order of the ids in the request; so timestampStart <=
\* timestampEnd.  (The row stores timestampStart as its timestamp; the
\* response carries both bounds as decimal strings.)
C2_StartIsMinEndIsMax ==
    Labeled =>
        /\ LastRow.timestamp = Min(RequestedTimestamps)
        /\ response.data[1].timestampStart = toString(Min(RequestedTimestamps))
        /\ response.data[1].timestampEnd = toString(Max(RequestedTimestamps))
        /\ LastRow.details.duration = Max(RequestedTimestamps) - Min(RequestedTimestamps)
        /\ LastRow.details.duration >= 0

\* a request that lists a later event before an earlier one has been labeled
C2_Witness ==
    /\ Labeled
    /\ Len(req.eventIds.items) = 2
    /\ events[req.eventIds.items[1]].timestamp > events[req.eventIds.items[2]].timestamp

----------------------------------------------------------------------------
(* C3 *)

MissingIds(b) == Range(b.eventIds.items) \ DOMAIN events

\* C3: a label request (one that passes the checks of its fields) naming at
\* least one id that is not in the events table fails with 404, the error
\* names exactly the requested ids that do not exist, no image copy is
\* issued and labeled_events is unchanged.
C3_MissingIdsRejected ==
    [][(/\ pc = "idle"
        /\ RejectionOf(req', awsConfigured) = NoReply
        /\ MissingIds(req') # {})
       => /\ pc' = "idle"
          /\ response'.status = 404
          /\ Range(response'.ids) = MissingIds(req')
          /\ copyLog' = <<>>
          /\ s3' = s3
          /\ labeledEvents' = labeledEvents]_vars

\* a request naming an existing and a missing id has been rejected
C3_Witness ==
    /\ pc = "idle"
    /\ response.status = 404
    /\ MissingIds(req) # {}
    /\ RequestedIds \cap DOMAIN events # {}

----------------------------------------------------------------------------
(* C4 *)

\* the defects of the request fields that C4 lists
EventIdsMalformed(b) == ~b.eventIds.isArray \/ b.eventIds.items = <<>>
FormatMalformed(b) ==
    b.format # <<>> /\ ~(Len(b.format) = 2 /\ Range(b.format) \subseteq Digits)
ContentMalformed(b) ==
    b.content # <<>> /\ ~(Len(b.content) = 3 /\ Range(b.content) \subseteq Digits)
SongFieldsMissing(b) ==
    /\ b.detectionType = "Song"
    /\ \/ ~b.songDetails.given
       \/ ~("songName" \in DOMAIN b.songDetails.fields)
       \/ ~("artistName" \in DOMAIN b.songDetails.fields)
       \/ b.songDetails.fields["songName"] = ""
       \/ b.songDetails.fields["artistName"] = ""
FieldsDefective(b) ==
    \/ EventIdsMalformed(b)
    \/ b.detectionType = ""
    \/ FormatMalformed(b)
    \/ ContentMalformed(b)
    \/ SongFieldsMissing(b)

\* C4: a request with defective fields (eventIds empty or not an array, no
\* detectionType, format not two digits, content not three digits, a Song
\* without songName or artistName) is rejected in the step that receives
\* it: no event is fetched, no copy is issued, nothing is inserted, and the
\* bucket and both tables are unchanged.
C4_FieldRejectionHasNoEffect ==
    [][(pc = "idle" /\ FieldsDefective(req'))
       => /\ pc' = "idle"
          /\ response'.status \in {400, 500}
          /\ response'.ids = <<>>
          /\ sortedEvents' = <<>>
          /\ copyLog' = <<>>
          /\ s3' = s3
          /\ labeledEvents' = labeledEvents
          /\ events' = events]_vars

\* a Song request without artistName, naming an existing event, has been
\* rejected while the bucket already holds a labeled frame
C4_Witness ==
    /\ pc = "idle"
    /\ response.status = 400
    /\ req.detectionType = "Song"
    /\ req.songDetails.given
    /\ ~("artistName" \in DOMAIN req.songDetails.fields)
    /\ RequestedIds \subseteq DOMAIN events
    /\ DOMAIN s3 # SourceKeys(events)

----------------------------------------------------------------------------
(* C5 *)

\* the commands logged are successful copies of exactly the members of the
\* request, one each, in the order of sortedEvents
AllMembersCopied ==
    /\ Len(copyLog) = Len(req.eventIds.items)
    /\ Len(copyLog) = Len(sortedEvents)
    /\ \A i \in DOMAIN copyLog :
           /\ copyLog[i].ok
           /\ copyLog[i].eventId = sortedEvents[i].id
    /\ {copyLog[i].eventId : i \in DOMAIN copyLog} = RequestedIds

\* C5: whenever labelEvent inserts a row for N member events, exactly N
\* copies have succeeded before, one per member event; the insert is never
\* performed (nor pending) while a member's copy is unissued or has failed.
C5_InsertOnlyAfterAllCopies ==
    /\ [](pc = "create" => AllMembersCopied)
    /\ [][labeledEvents' # labeledEvents => (pc = "create" /\ AllMembersCopied)]_vars

\* a row over two member events has been inserted
C5_Witness ==
    /\ Labeled
    /\ Len(copyLog) = 2

----------------------------------------------------------------------------
(* C6 *)

IsSortedByTimestamp(s) ==
    \A i, j \in DOMAIN s : i < j => s[i].timestamp <= s[j].timestamp

InvalidDetailsMessage == "Invalid event details for event ID"

CreateFailedMessage == "Failed to label events"

\* the handler returned from the iteration of the loop at position idx:
\* the event has no valid details, its image_path is no URL (the exception
\* is answered by the catch block), or its copy failed
AbortedInLoop ==
    /\ pc = "idle"
    /\ \/ response.message \in {InvalidDetailsMessage, CopyFailedMessage}
       \/ /\ response.message = CreateFailedMessage
          /\ Len(copyLog) < Len(sortedEvents)

\* C6: when the k-th member event in ascending timestamp order fails (its
\* details are malformed or its copy fails) the request is aborted with an
\* error, labeled_events is unchanged, the objects written by the copies
\* of the k-1 earlier events are still in the bucket, and no copy was
\* issued for the k-th event (malformed details) or for any later event.
C6_AbortKeepsEarlierCopies ==
    AbortedInLoop
    => /\ response.status \in {400, 500}
       /\ response.data = <<>>
       /\ IsSortedByTimestamp(sortedEvents)
       /\ idx \in DOMAIN sortedEvents
       /\ response.message # CreateFailedMessage => response.ids = <<sortedEvents[idx].id>>
       /\ Len(labeledEvents) = segsAtStart
       /\ \A j \in 1..(idx - 1) :
              /\ copyLog[j].ok
              /\ copyLog[j].eventId = sortedEvents[j].id
              /\ copyLog[j].cmd.Key \in DOMAIN s3
              /\ s3[copyLog[j].cmd.Key] = s3[copyLog[j].cmd.CopySource.key]
       /\ IF response.message = CopyFailedMessage
          THEN /\ Len(copyLog) = idx
               /\ ~copyLog[idx].ok
               /\ copyLog[idx].eventId = sortedEvents[idx].id
          ELSE Len(copyLog) = idx - 1

\* the second member event had malformed details, after the first was copied
C6_Witness ==
    /\ pc = "idle"
    /\ response.message = InvalidDetailsMessage
    /\ idx = 2
    /\ Len(copyLog) = 1
    /\ copyLog[1].cmd.Key \in DOMAIN s3

----------------------------------------------------------------------------
(* C7 *)

\* every logged copy succeeded and its destination object is in the bucket,
\* holding the body of its source
CopiedObjectsPresent ==
    \A i \in DOMAIN copyLog :
        /\ copyLog[i].ok
        /\ copyLog[i].cmd.Key \in DOMAIN s3
        /\ s3[copyLog[i].cmd.Key] = s3[copyLog[i].cmd.CopySource.key]

\* the references (URLs) of the objects the request copied
CopiedUrls == {LabeledUrl(copyLog[i].cmd.Key) : i \in DOMAIN copyLog}

RowsReferencing(urls) ==
    {r \in DOMAIN labeledEvents : Range(labeledEvents[r].details.images) \cap urls # {}}

\* the step in which the pending insert fails
InsertFails == pc = "create" /\ response'.status # 201

\* what C7 says of that step in every case: the error is surfaced, no row
\* is added, the N destination objects stay, nothing is deleted or retried
FailedInsertEffect ==
    /\ pc' = "idle"
    /\ response'.status = 500
    /\ response'.data = <<>>
    /\ labeledEvents' = labeledEvents
    /\ Len(labeledEvents) = segsAtStart
    /\ AllMembersCopied
    /\ CopiedObjectsPresent
    /\ s3' = s3
    /\ copyLog' = copyLog

----------------------------------------------------------------------------
(* C8 *)

AllDetailsValid ==
    \A id \in RequestedIds \cap DOMAIN events :
        /\ validateEventDetails(events[id].details)
        /\ ParsesAsUrl(events[id].details.image_path)

NoCopyFailed == \A i \in DOMAIN copyLog : copyLog[i].ok

\* the key the frame of an event is relocated to
ExpectedKey(id) == ReplaceFramesDir(Tail(events[id].details.image_path.pathname))

\* what a single fault-free execution of req leaves: one more row, and for
\* every member event its frame at the labeled key
AsOneFaultFreeExecution ==
    /\ response.status = 201
    /\ Len(labeledEvents) = segsAtStart + 1
    /\ \A id \in RequestedIds :
           /\ ExpectedKey(id) \in DOMAIN s3
           /\ s3[ExpectedKey(id)] = Tail(events[id].details.image_path.pathname)
    /\ {copyLog[i].cmd.Key : i \in DOMAIN copyLog} = {ExpectedKey(id) : id \in RequestedIds}
    /\ DOMAIN s3 \subseteq SourceKeys(events) \cup {ReplaceFramesDir(k) : k \in SourceKeys(events)}

----------------------------------------------------------------------------
(* C9 *)

\* C9: relocation copies and never moves: whatever requests were handled,
\* every source object of the unlabeled area is still in the bucket with
\* its body, and every copy names the same bucket as source and target and
\* writes outside the unlabeled area.
C9_CopyNeverMoves ==
    /\ \A k \in SourceKeys(events) : k \in DOMAIN s3 /\ s3[k] = k
    /\ \A i \in DOMAIN copyLog :
           /\ copyLog[i].cmd.Bucket = copyLog[i].cmd.CopySource.bucket
           /\ copyLog[i].cmd.CopySource.key \in SourceKeys(events)
           /\ copyLog[i].cmd.Key \notin SourceKeys(events)

\* after a successful request, a request has copied one frame and failed
C9_Witness ==
    /\ pc = "idle"
    /\ Len(labeledEvents) >= 1
    /\ response.message = CopyFailedMessage
    /\ Len(copyLog) = 2
    /\ copyLog[1].ok

----------------------------------------------------------------------------
(* C10 *)

\* dst is src with the directory after Nepal_Frames/ changed from one of
\* the unlabeled areas to labeled_frames, and nothing else
Relocated(src, dst) ==
    /\ Len(dst) = Len(src)
    /\ \E i \in 1..(Len(src) - 2) :
           /\ src[i] = "Nepal_Frames"
           /\ src[i + 1] = "/"
           /\ src[i + 2] \in UnlabeledFrames
           /\ dst[i + 2] = "labeled_frames"
           /\ \A j \in DOMAIN src : j # i + 2 => dst[j] = src[j]

LabeledObjects == DOMAIN s3 \ SourceKeys(events)

\* C10: the destination is a function of the source path: every copy goes
\* to the source key with unrecognized_frames or analayzed_frames replaced
\* by labeled_frames, every labeled object of the bucket (whichever request
\* wrote it) sits at the key derived from its source, and the i-th
\* reference of the images list denotes the bucket and key of the i-th copy.
C10_DestinationDerivedFromSource ==
    /\ \A i \in DOMAIN copyLog :
           Relocated(copyLog[i].cmd.CopySource.key, copyLog[i].cmd.Key)
    /\ \A k \in LabeledObjects : Relocated(s3[k], k)
    /\ \A k1, k2 \in LabeledObjects : s3[k1] = s3[k2] => k1 = k2
    /\ Len(group.images) = Cardinality({i \in DOMAIN copyLog : copyLog[i].ok})
    /\ \A i \in DOMAIN group.images :
           /\ Tail(group.images[i].pathname) = copyLog[i].cmd.Key
           /\ group.images[i].host = <<copyLog[i].cmd.Bucket, "s3", region, "amazonaws.com">>
    /\ Labeled => /\ LastRow.details.images = group.images
                  /\ LastRow.details.image_path = group.images[1]

\* a frame of each unlabeled area has been relocated by one request
C10_Witness ==
    /\ Labeled
    /\ Len(copyLog) = 2
    /\ {copyLog[i].cmd.CopySource.key[3] : i \in DOMAIN copyLog} = UnlabeledFrames

----------------------------------------------------------------------------
(* C11 *)

\* C11: every row of labeled_events has a detectionType that is one of the
\* six values of the enumeration, and no request with another detectionType
\* is answered 201.
C11_DetectionTypeInEnumeration ==
    /\ \A r \in DOMAIN labeledEvents :
           labeledEvents[r].detectionType \in DetectionTypes
    /\ Labeled => req.detectionType \in DetectionTypes

----------------------------------------------------------------------------
(* C12 *)

\* the detail object of the request's own detectionType
OwnDetails(b) ==
    CASE b.detectionType = "Program Content" -> b.programContentDetails
      [] b.detectionType = "Commercial Break" -> b.commercialBreakDetails
      [] b.detectionType = "Spots outside breaks" -> b.spotsOutsideBreaksDetails
      [] b.detectionType = "Auto-promo" -> b.autoPromoDetails
      [] b.detectionType = "Song" -> b.songDetails
      [] b.detectionType = "Error" -> b.errorDetails
      [] OTHER -> NoDetails

\* the sub-fields C12 says each category requires
RequiredSubFields(type) ==
    CASE type = "Program Content" -> {"description", "formatType", "contentType"}
      [] type = "Spots outside breaks" -> {"formatType"}
      [] type = "Auto-promo" -> {"contentType"}
      [] type = "Song" -> {"songName", "artistName"}
      [] type = "Error" -> {"errorType"}
      [] OTHER -> {}

\* the detail object of the request's detectionType is absent, or one of
\* the required sub-fields is missing or empty
CategoryDefective(b) ==
    /\ b.detectionType \in DetectionTypes
    /\ \/ ~OwnDetails(b).given
       \/ \E k \in RequiredSubFields(b.detectionType) :
              \/ k \notin DOMAIN OwnDetails(b).fields
              \/ OwnDetails(b).fields[k] = ""

\* the request passes the checks that precede those of the category details
PassesEarlierChecks(b) ==
    /\ ~EventIdsMalformed(b)
    /\ b.detectionType # ""
    /\ awsConfigured
    /\ ~FormatMalformed(b)
    /\ ~ContentMalformed(b)

\* the handler answered 400 before fetching, for the category details
RejectedForCategory ==
    /\ pc = "idle"
    /\ response.status = 400
    /\ sortedEvents = <<>>
    /\ response.message \notin {"Event IDs and detection type are required",
                                "Format must be a 2-digit code",
                                "Content must be a 3-digit code"}

\* C12: a request that reaches the checks of the category details is
\* rejected with 400 for them exactly when the detail object of its
\* detectionType is absent or a required sub-field of that category is
\* missing or empty.
C12_CategoryRejectionIffDefect ==
    (pc = "idle" /\ response.status # 0 /\ PassesEarlierChecks(req))
    => (RejectedForCategory <=> CategoryDefective(req))

----------------------------------------------------------------------------
(* Vocabulary of the properties of the GET handlers *)

\* a GET answered 200 with the groups of page
Answered == recResponse.status = 200

Groups == recResponse.data

RowOf(id) == CHOOSE r \in Range(page) : r.id = id

\* the rows of a group, in the order the group absorbed them
MemberRows(gi) == [j \in DOMAIN recResponse.memberIds[gi] |->
                      RowOf(recResponse.memberIds[gi][j])]

\* the fields C14 lists, on which a segment and a group are compared
AgreeOnComparedFields(a, b) ==
    /\ <<a.deviceId, a.detectionType, a.date, a.begin, a.format>>
           = <<b.deviceId, b.detectionType, b.date, b.begin, b.format>>
    /\ <<a.content, a.title, a.episodeId, a.seasonId, a.repeat>>
           = <<b.content, b.title, b.episodeId, b.seasonId, b.repeat>>
    /\ \A k \in {"description", "formatType", "contentType", "category",
                 "sector", "songName", "movieNameOrAlbumName", "artistName",
                 "yearOfPublication", "genre", "tempo", "errorType"} :
           (k \in DOMAIN a.details /\ k \in DOMAIN b.details
                /\ a.details[k] = b.details[k])
           \/ (k \notin DOMAIN a.details /\ k \notin DOMAIN b.details)

HasValidDetails(r) == {"score", "image_path", "channel_name"} \subseteq DOMAIN r.details

RECURSIVE Flatten(_)
Flatten(ss) == IF ss = <<>> THEN <<>> ELSE Head(ss) \o Flatten(Tail(ss))

\* the ids of the rows with valid details, in the order of rows
RECURSIVE ValidIds(_)
ValidIds(rows) ==
    IF rows = <<>> THEN <<>>
    ELSE IF HasValidDetails(Head(rows))
         THEN <<Head(rows).id>> \o ValidIds(Tail(rows))
         ELSE ValidIds(Tail(rows))

----------------------------------------------------------------------------
(* C13 *)

\* C13: given exactly two rows with valid details that agree on every
\* compared field, at distance d of their timestamps, the handler returns
\* one group from the earlier to the later timestamp with duration d when
\* d <= 60, and two groups when d > 60.
C13_TwoSegmentsMergeWithin60 ==
    (/\ Answered
     /\ Len(page) = 2
     /\ HasValidDetails(page[1])
     /\ HasValidDetails(page[2])
     /\ AgreeOnComparedFields(page[1], page[2]))
    => LET d == page[2].timestamp - page[1].timestamp
       IN  /\ d >= 0
           /\ IF d <= 60
              THEN /\ Len(Groups) = 1
                   /\ Groups[1].timestampStart = toString(page[1].timestamp)
                   /\ Groups[1].timestampEnd = toString(page[2].timestamp)
                   /\ Groups[1].details.duration = d
              ELSE /\ Len(Groups) = 2
                   /\ \A i \in 1..2 :
                          /\ Groups[i].timestampStart = toString(page[i].timestamp)
                          /\ Groups[i].timestampEnd = toString(page[i].timestamp)
                          /\ Groups[i].details.duration = 0

\* two agreeing rows 30 seconds apart came back as one group of duration 30
C13_Witness ==
    /\ Answered
    /\ Len(page) = 2
    /\ AgreeOnComparedFields(page[1], page[2])
    /\ page[2].timestamp - page[1].timestamp = 30
    /\ Len(Groups) = 1
    /\ Groups[1].details.duration = 30

----------------------------------------------------------------------------
(* C14 *)

\* C14: every row a group absorbed after its first is within 60 seconds of
\* the group's representative timestamp (that of its first row) and agrees
\* with the group on every compared field; so no row further away, or
\* differing in a compared field, is in the group.
C14_AbsorbedOnlyIfSimilar ==
    Answered =>
        \A gi \in DOMAIN Groups :
            LET rows == MemberRows(gi)
            IN  /\ rows # <<>>
                /\ Groups[gi].timestamp = toString(rows[1].timestamp)
                /\ AgreeOnComparedFields(Groups[gi], rows[1])
                /\ \A j \in 2..Len(rows) :
                       /\ rows[j].timestamp - rows[1].timestamp <= 60
                       /\ rows[1].timestamp - rows[j].timestamp <= 60
                       /\ AgreeOnComparedFields(Groups[gi], rows[j])

\* a group absorbed a second row while another row with valid details,
\* within 60 seconds of the group's first row, was kept out of it
C14_Witness ==
    /\ Answered
    /\ \E gi \in DOMAIN Groups :
           /\ Len(recResponse.memberIds[gi]) = 2
           /\ MemberRows(gi)[2].timestamp # MemberRows(gi)[1].timestamp
           /\ \E r \in Range(page) :
                  /\ HasValidDetails(r)
                  /\ r.id \notin Range(recResponse.memberIds[gi])
                  /\ r.timestamp - MemberRows(gi)[1].timestamp \in 0..60

----------------------------------------------------------------------------
(* C15 *)

\* C15: the groups are in non-decreasing order of timestampStart, every row
\* of the page with valid details is a member of exactly one group, a row
\* whose details fail validation is a member of none, and the images of a
\* group are those of its members, each once.
C15_GroupsPartitionValidInput ==
    Answered =>
        /\ \A gi \in 1..(Len(Groups) - 1) :
               Number(Groups[gi].timestampStart) <= Number(Groups[gi + 1].timestampStart)
        /\ Len(recResponse.memberIds) = Len(Groups)
        /\ Flatten(recResponse.memberIds) = ValidIds(page)
        /\ \A gi \in DOMAIN Groups :
               Groups[gi].images =
                   Flatten([j \in DOMAIN MemberRows(gi) |->
                               IF "images" \in DOMAIN MemberRows(gi)[j].details
                               THEN MemberRows(gi)[j].details.images
                               ELSE <<MemberRows(gi)[j].details.image_path>>])

\* three rows, one of them with invalid details, came back as two groups
C15_Witness ==
    /\ Answered
    /\ Len(page) = 3
    /\ Len(ValidIds(page)) = 2
    /\ Len(Groups) = 2
    /\ Groups[1].images # Groups[2].images

----------------------------------------------------------------------------
(* C16 *)

\* C16: the duration of every group of the output is its timestampEnd minus
\* its timestampStart, the span of the rows it absorbed.
C16_DurationIsSpanOfGroup ==
    Answered =>
        \A gi \in DOMAIN Groups :
            Groups[gi].details.duration =
                Number(Groups[gi].timestampEnd) - Number(Groups[gi].timestampStart)

----------------------------------------------------------------------------
(* C17 *)

MainDone == pc = "idle" /\ response # NoReply
PeerDone == peer.pc = "idle" /\ peer.response # NoReply

PeerIds == Range(peer.req.eventIds.items)

\* the group of a request whose events, sorted, are `sorted`, after the
\* copies of the first k
RECURSIVE GroupAfter(_, _)
GroupAfter(sorted, k) ==
    IF k = 0 THEN InitialGroup(sorted)
    ELSE GroupAfterCopy(GroupAfter(sorted, k - 1), sorted[k], sorted)

\* the responses of a request b that runs alone and fetches its events as
\* `sorted`: a copy fails, an event is unusable, the insert fails, or the
\* row is inserted under some id
RepliesFor(b, sorted) ==
    LET bad == {k \in DOMAIN sorted :
                   \/ ~validateEventDetails(sorted[k].details)
                   \/ ~ParsesAsUrl(sorted[k].details.image_path)}
        copied == IF bad = {} THEN Len(sorted) ELSE Min(bad) - 1
        g == GroupAfter(sorted, copied)
    IN  {Reply(500, CopyFailedMessage, <<sorted[k].id>>, <<>>) : k \in 1..copied}
        \cup (IF bad # {}
              THEN {IF ~validateEventDetails(sorted[Min(bad)].details)
                    THEN Reply(400, InvalidDetailsMessage, <<sorted[Min(bad)].id>>, <<>>)
                    ELSE Reply(500, CreateFailedMessage, <<>>, <<>>)}
              ELSE {Reply(500, CreateFailedMessage, <<>>, <<>>)}
                   \cup {Reply(201, "Events labeled successfully as a single group", <<>>,
                               <<LabeledResponse(LabeledEventRow(id, b, g, sorted), g)>>) :
                            id \in 1..(2 * MaxSegments)})

\* the responses request b can get when no other request is in flight
AloneReplies(b) ==
    IF RejectionOf(b, awsConfigured) # NoReply
    THEN {RejectionOf(b, awsConfigured)}
    ELSE IF \E id \in Range(b.eventIds.items) : id \notin DOMAIN events
    THEN {Reply(404, "Events with IDs not found", MissingIds(b), <<>>)}
    ELSE UNION {RepliesFor(b, SortByTimestamp(p)) :
                   p \in Perms({events[id] : id \in Range(b.eventIds.items)})}

\* the row a 201 response reports is the row of the table with its id
RowPersisted(r) ==
    r.status = 201 =>
        /\ r.data[1].labeledEvent.id \in DOMAIN labeledEvents
        /\ labeledEvents[r.data[1].labeledEvent.id] = r.data[1].labeledEvent

\* C17: when two label requests over disjoint sets of event ids have both
\* been answered, under every interleaving of their fetch, copy and insert
\* steps, the response of each is one it can get running alone (its row
\* getting the next id of the table), the row each reports is in the table
\* as reported, and when both succeeded the table holds both rows.
C17_DisjointRequestsIndependent ==
    (MainDone /\ PeerDone /\ RequestedIds \cap PeerIds = {})
    => /\ response \in AloneReplies(req)
       /\ peer.response \in AloneReplies(peer.req)
       /\ RowPersisted(response)
       /\ RowPersisted(peer.response)
       /\ (response.status = 201 /\ peer.response.status = 201)
          => /\ Len(labeledEvents) = 2
             /\ response.data[1].labeledEvent.id # peer.response.data[1].labeledEvent.id

\* two requests over disjoint ids, the second arriving while the first was
\* in flight, have both succeeded
C17_Witness ==
    /\ MainDone
    /\ PeerDone
    /\ peer.overlapped
    /\ RequestedIds \cap PeerIds = {}
    /\ response.status = 201
    /\ peer.response.status = 201
    /\ Len(labeledEvents) = 2

----------------------------------------------------------------------------
(* C18 *)

\* the rows whose images include the labeled frame of event id
RowsOfEvent(id) ==
    {r \in DOMAIN labeledEvents :
        LabeledUrl(ExpectedKey(id)) \in Range(labeledEvents[r].details.images)}

\* C18: a pending insert can always go through, whatever rows the table
\* holds; and when two requests over overlapping sets of event ids,
\* concurrent or one after the other, have both been answered, neither was
\* refused because of the other, and when both succeeded the table holds
\* two distinct rows that reference every event the requests share.
C18_OverlappingRequestsBothAccepted ==
    /\ pc = "create" => ENABLED CreateSucceeds
    /\ peer.pc = "create" => ENABLED PeerCreateSucceeds
    /\ (MainDone /\ PeerDone /\ RequestedIds \cap PeerIds # {})
       => /\ response \in RepliesFor(req, sortedEvents)
          /\ peer.response \in RepliesFor(peer.req, peer.sortedEvents)
          /\ (response.status = 201 /\ peer.response.status = 201)
             => \A id \in RequestedIds \cap PeerIds :
                    {response.data[1].labeledEvent.id,
                     peer.response.data[1].labeledEvent.id} \subseteq RowsOfEvent(id)

\* the table holds two rows with the same originalEventId, inserted by two
\* requests that were in flight at the same time
C18_Witness ==
    /\ MainDone
    /\ PeerDone
    /\ peer.overlapped
    /\ Len(labeledEvents) = 2
    /\ labeledEvents[1].originalEventId = labeledEvents[2].originalEventId
    /\ labeledEvents[1].id # labeledEvents[2].id

----------------------------------------------------------------------------
(* C19 *)

\* C19: no step of labelEvent, getEvents, getLabeledEvents,
\* getManuallyLabeledEvents or generateReport changes the events table or
\* a row of labeled_events: every row stays as it is, a GET changes no
\* table and no object, and a successful insert, also of a request over
\* events that a row already references, appends one row.
C19_StoresAppendOnly ==
    [][/\ events' = events
       /\ Len(labeledEvents') >= Len(labeledEvents)
       /\ SubSeq(labeledEvents', 1, Len(labeledEvents)) = labeledEvents
       /\ recResponse' # recResponse => (labeledEvents' = labeledEvents /\ s3' = s3)
       /\ (pc = "create" /\ response'.status = 201)
          => labeledEvents' = Append(labeledEvents, response'.data[1].labeledEvent)]_vars

\* the same event was labeled twice and the table, read by a GET, holds
\* both rows
C19_Witness ==
    /\ Labeled
    /\ recResponse.status = 200
    /\ Len(labeledEvents) = 2
    /\ labeledEvents[1].originalEventId = labeledEvents[2].originalEventId
    /\ labeledEvents[1].details.images = labeledEvents[2].details.images

----------------------------------------------------------------------------
(* C20 *)

\* { ...base, ...over }, written out
Overlaid(base, over) ==
    [k \in DOMAIN base \cup DOMAIN over |->
        IF k \in DOMAIN over THEN over[k] ELSE base[k]]

\* the references of the relocated frames, in the order of the copies
RelocatedImages == [i \in DOMAIN copyLog |-> LabeledUrl(ExpectedKey(copyLog[i].eventId))]

\* the category-specific fields of the request's own detectionType; for a
\* Program Content the episodeId and seasonId of the request come first
OwnCategoryFields(b) ==
    LET own == IF OwnDetails(b).given THEN OwnDetails(b).fields ELSE [k \in {} |-> ""]
        ids == [episodeId |-> IF b.episodeId # "" THEN b.episodeId
                              ELSE Field(b.programContentDetails, "episodeId"),
                seasonId |-> IF b.seasonId # "" THEN b.seasonId
                             ELSE Field(b.programContentDetails, "seasonId")]
    IN  IF b.detectionType = "Program Content"
        THEN Overlaid(own, [k \in {j \in DOMAIN ids : ids[j] # ""} |-> ids[k]])
        ELSE own

\* the details of event id with image_path set to the relocated reference,
\* plus the images and the duration
BaseWithImages(id) ==
    Overlaid(events[id].details,
             [image_path |-> LabeledUrl(ExpectedKey(id)),
              images |-> RelocatedImages,
              duration |-> Max(RequestedTimestamps) - Min(RequestedTimestamps)])

\* C20 as stated: the details of the row are the details of the earliest
\* member event with image_path set to its relocated reference, plus
\* images and duration, overlaid with the category-specific fields of the
\* request's own detectionType.
C20_DetailsAreBasePlusOverlay ==
    Labeled =>
        \E id \in RequestedIds :
            /\ events[id].timestamp = Min(RequestedTimestamps)
            /\ LastRow.details = Overlaid(BaseWithImages(id), OwnCategoryFields(req))

\* C20, amended: the details of the row are the details of the earliest
\* member event with image_path set to its relocated reference and the
\* event's own image_path kept as original_image_path, plus images and
\* duration, overlaid with the category-specific fields of the request's
\* own detectionType only; on a key collision the category-specific value
\* wins, and the detail objects of other detection types are ignored.
C20_DetailsKeepOriginalImagePath ==
    Labeled =>
        \E id \in RequestedIds :
            /\ events[id].timestamp = Min(RequestedTimestamps)
            /\ LastRow.details =
                   Overlaid(Overlaid(BaseWithImages(id),
                                     [original_image_path |-> events[id].details.image_path]),
                            OwnCategoryFields(req))

\* a Song over two events was labeled whose songDetails carry channel_name
\* and whose request carries errorDetails: the row has the channel_name of
\* the songDetails and no errorType
C20_Witness ==
    /\ Labeled
    /\ Len(sortedEvents) = 2
    /\ req.detectionType = "Song"
    /\ req.errorDetails.given
    /\ "channel_name" \in DOMAIN req.songDetails.fields
    /\ LastRow.details.channel_name = req.songDetails.fields.channel_name
    /\ LastRow.details.channel_name # sortedEvents[1].details.channel_name
    /\ "errorType" \notin DOMAIN LastRow.details

----------------------------------------------------------------------------
(* C21 *)

\* the orders of the requested ids that ascend by timestamp
AscendingOrders ==
    {f \in Perms(RequestedIds) :
        \A i, j \in DOMAIN f : i < j => events[f[i]].timestamp <= events[f[j]].timestamp}

\* C21: after a successful label request over N events the images list of
\* the response, which is the one stored in the row, has N entries, the
\* i-th being the relocated reference of the i-th member event in an
\* ascending order of timestamps, whatever the order of eventIds.
C21_ImagesInTimestampOrder ==
    Labeled =>
        /\ Len(response.data[1].images) = Len(req.eventIds.items)
        /\ \E f \in AscendingOrders :
               response.data[1].images = [i \in DOMAIN f |-> LabeledUrl(ExpectedKey(f[i]))]
        /\ LastRow.details.images = response.data[1].images

\* a request listing the later event first was labeled
C21_Witness ==
    /\ Labeled
    /\ Len(req.eventIds.items) = 2
    /\ events[req.eventIds.items[1]].timestamp > events[req.eventIds.items[2]].timestamp
    /\ response.data[1].images[1] = LabeledUrl(ExpectedKey(req.eventIds.items[2]))

----------------------------------------------------------------------------
(* C22 *)

\* the events whose CopyObjectCommand the request has sent and S3 answered
CopiedIds == {copyLog[i].eventId : i \in DOMAIN copyLog}

\* C22: the copies of one label request are issued one at a time in
\* ascending timestamp order of the member events: every event has at most
\* one command, the commands answered so far are those of the earliest
\* events in order, only the last of them can have failed, a command is
\* pending or the insert is reached only when every earlier command
\* succeeded, and after a failed command the handler has returned.
C22_CopiesSequentialNoRetry ==
    /\ CopiedIds \subseteq RequestedIds
    /\ \A i, j \in DOMAIN copyLog :
           i < j => /\ copyLog[i].eventId # copyLog[j].eventId
                    /\ events[copyLog[i].eventId].timestamp
                           <= events[copyLog[j].eventId].timestamp
    /\ \A i \in DOMAIN copyLog : \A id \in RequestedIds \ CopiedIds :
           events[copyLog[i].eventId].timestamp <= events[id].timestamp
    /\ \A i \in DOMAIN copyLog : i < Len(copyLog) => copyLog[i].ok
    /\ pc \in {"copy", "create"} => \A i \in DOMAIN copyLog : copyLog[i].ok
    /\ pc = "copy" => sortedEvents[idx].id \in RequestedIds \ CopiedIds
    /\ (\E i \in DOMAIN copyLog : ~copyLog[i].ok)
           => pc = "idle" /\ response.status = 500

\* the copy of the first event succeeded, the copy of the second failed
\* and the request was answered
C22_Witness ==
    /\ Len(copyLog) = 2
    /\ copyLog[1].ok
    /\ ~copyLog[2].ok
    /\ events[copyLog[1].eventId].timestamp < events[copyLog[2].eventId].timestamp
    /\ pc = "idle"
    /\ response.message = CopyFailedMessage

----------------------------------------------------------------------------
(* C23 *)

\* row b matches row a: they agree on every compared field and their
\* timestamps are at most 60 seconds apart
Matches(a, b) ==
    /\ AgreeOnComparedFields(a, b)
    /\ a.timestamp - b.timestamp <= 60
    /\ b.timestamp - a.timestamp <= 60

\* C23: the groups of the output are consecutive runs of the rows with
\* valid details in the order of the scan, none empty, the last row being
\* in the last group; the row that opens a group does not match the group
\* open before it (whose compared fields and timestamp are those of its
\* first row); no valid row gives no group; and three valid rows A, B, A'
\* in timestamp order, A' matching A and B not matching A, give three
\* groups.
C23_SingleOpenGroup ==
    Answered =>
        /\ Flatten(recResponse.memberIds) = ValidIds(page)
        /\ \A gi \in DOMAIN Groups : recResponse.memberIds[gi] # <<>>
        /\ \A gi \in 1..(Len(Groups) - 1) :
               ~Matches(MemberRows(gi)[1], MemberRows(gi + 1)[1])
        /\ ValidIds(page) = <<>> => Groups = <<>>
        /\ (/\ Len(page) = 3
            /\ \A i \in 1..3 : HasValidDetails(page[i])
            /\ Matches(page[1], page[3])
            /\ ~Matches(page[1], page[2]))
           => /\ Len(Groups) = 3
              /\ \A i \in 1..3 : recResponse.memberIds[i] = <<page[i].id>>

\* rows A, B, A' came back as three groups
C23_Witness ==
    /\ Answered
    /\ Len(page) = 3
    /\ \A i \in 1..3 : HasValidDetails(page[i])
    /\ Matches(page[1], page[3])
    /\ ~Matches(page[1], page[2])
    /\ page[1].timestamp < page[2].timestamp
    /\ Len(Groups) = 3

----------------------------------------------------------------------------
(* C24 *)

PerEventIds == perEvent.req.eventIds.items

PerEventAnswered == perEvent.pc = "idle" /\ perEvent.response # NoReply

\* the k-th id of the request has an event with usable details
Processable(k) ==
    /\ PerEventIds[k] \in DOMAIN events
    /\ {"score", "image_path", "channel_name"} \subseteq DOMAIN events[PerEventIds[k]].details
    /\ events[PerEventIds[k]].details.image_path # NotAUrl

\* the table holds, in order, one row for each of the first n ids of the
\* request and nothing else
RowsForFirst(n) ==
    /\ Len(labeledEvents) = n
    /\ \A i \in 1..n : /\ labeledEvents[i].originalEventId = PerEventIds[i]
                       /\ labeledEvents[i].timestamp = events[PerEventIds[i]].timestamp
                       /\ labeledEvents[i].deviceId = events[PerEventIds[i]].deviceId

\* C24: the per-event labelEvent, for a request whose fields pass the
\* validation, answers 201 only after it inserted one row per listed id,
\* in request order, and reports these rows; when it answers with an
\* error while processing the k-th id (no event, malformed details, a
\* failed copy or a failed insert), the k-1 rows of the earlier ids are in
\* the table and stay there.
C24_PerEventRowsAndPartialAbort ==
    (PerEventAnswered /\ RejectionOf(perEvent.req, TRUE) = NoReply) =>
        LET k == perEvent.idx
        IN  IF perEvent.response.status = 201
            THEN /\ RowsForFirst(Len(PerEventIds))
                 /\ \A i \in DOMAIN PerEventIds : Processable(i)
                 /\ perEvent.response.data =
                        [i \in DOMAIN labeledEvents |->
                            [labeledEvent |-> labeledEvents[i],
                             timestamp |-> toString(labeledEvents[i].timestamp)]]
            ELSE /\ k \in DOMAIN PerEventIds
                 /\ RowsForFirst(k - 1)
                 /\ \A i \in 1..(k - 1) : Processable(i)
                 /\ perEvent.response.status \in {400, 404, 500}
                 /\ perEvent.response.status = 404 <=> PerEventIds[k] \notin DOMAIN events
                 /\ perEvent.response.status = 400
                        <=> (/\ PerEventIds[k] \in DOMAIN events
                             /\ ~({"score", "image_path", "channel_name"}
                                      \subseteq DOMAIN events[PerEventIds[k]].details))

\* the request failed at its second id and the row of the first is in the
\* table
C24_Witness ==
    /\ PerEventAnswered
    /\ perEvent.idx = 2
    /\ perEvent.response.status \in {404, 500}
    /\ Len(labeledEvents) = 1
    /\ labeledEvents[1].originalEventId = PerEventIds[1]

----------------------------------------------------------------------------
(* C25 *)

\* the member events of a row: those whose relocated frame is in its images
MembersOf(row) ==
    {id \in DOMAIN events :
        /\ {"score", "image_path", "channel_name"} \subseteq DOMAIN events[id].details
        /\ events[id].details.image_path # NotAUrl
        /\ LabeledUrl(ExpectedKey(id)) \in Range(row.details.images)}

\* C25: the unlabeled count of a report for a date and a device is, when
\* the report is made, the number of events of that device and day that
\* are a member event of no row of that device and day.
C25_UnlabeledCountExcludesMembers ==
    [][(/\ recResponse' # recResponse
        /\ recResponse'.handler = "generateReport"
        /\ recResponse'.status = 200)
       => LET rep == recResponse'.data[1]
              ofDay(x) == /\ x.deviceId = rep.deviceId
                          /\ x.timestamp \in (rep.date.day * 86400)..(rep.date.day * 86400 + 86399)
          IN  rep.unlabeledCount =
                  Cardinality({i \in DOMAIN events :
                                  /\ ofDay(events[i])
                                  /\ ~\E r \in DOMAIN labeledEvents :
                                         /\ ofDay(labeledEvents[r])
                                         /\ events[i].id \in MembersOf(labeledEvents[r])})]_vars

----------------------------------------------------------------------------
(* C26 *)

\* the date and begin of the row are those of its timestamp, as in every
\* row labelEvent inserts
DerivedFromTimestamp(r) ==
    /\ r.date = r.timestamp \div 86400
    /\ r.begin = <<(r.timestamp % 86400) \div 3600, (r.timestamp % 3600) \div 60,
                   r.timestamp % 60>>

\* C26: two rows whose date and begin are derived from their timestamp are
\* members of the same group only if their timestamps are equal.
C26_EngineRowsMergeOnlyAtEqualTimestamp ==
    Answered =>
        \A gi \in DOMAIN Groups :
            \A i, j \in DOMAIN MemberRows(gi) :
                (DerivedFromTimestamp(MemberRows(gi)[i])
                     /\ DerivedFromTimestamp(MemberRows(gi)[j]))
                => MemberRows(gi)[i].timestamp = MemberRows(gi)[j].timestamp

\* three such rows equal on every other compared field, two of the same
\* timestamp and the third 30 seconds later, came back as a group of the
\* two and a group of the third
C26_Witness ==
    /\ Answered
    /\ Len(page) = 3
    /\ \A i \in 1..3 : DerivedFromTimestamp(page[i])
    /\ page[1].timestamp = page[2].timestamp
    /\ page[3].timestamp = page[1].timestamp + 30
    /\ page[1].title = page[3].title
    /\ Len(Groups) = 2
    /\ Len(recResponse.memberIds[1]) = 2

----------------------------------------------------------------------------
(* C27 *)

\* C27: every group of the output has timestampStart <= timestampEnd and
\* timestampEnd - timestampStart <= 60, timestampStart and the group's
\* timestamp being the timestamp of the row that opened it; three valid
\* rows agreeing on every compared field, each at most 60 seconds after
\* the one before and the third more than 60 seconds after the first,
\* come back as a group of the first two and a group of the third.
C27_GroupSpanWithinWindowOfSeed ==
    Answered =>
        /\ \A gi \in DOMAIN Groups :
               /\ Number(Groups[gi].timestampStart) <= Number(Groups[gi].timestampEnd)
               /\ Number(Groups[gi].timestampEnd) - Number(Groups[gi].timestampStart) <= 60
               /\ Number(Groups[gi].timestampStart) = MemberRows(gi)[1].timestamp
               /\ Number(Groups[gi].timestamp) = MemberRows(gi)[1].timestamp
               /\ Number(Groups[gi].timestampEnd)
                      = MemberRows(gi)[Len(MemberRows(gi))].timestamp
        /\ (/\ Len(page) = 3
            /\ \A i \in 1..3 : HasValidDetails(page[i])
            /\ AgreeOnComparedFields(page[1], page[2])
            /\ AgreeOnComparedFields(page[2], page[3])
            /\ page[2].timestamp - page[1].timestamp <= 60
            /\ page[3].timestamp - page[2].timestamp <= 60
            /\ page[3].timestamp - page[1].timestamp > 60)
           => recResponse.memberIds = <<<<page[1].id, page[2].id>>, <<page[3].id>>>>

\* the chain 0, 30, 61 was split after its second row
C27_Witness ==
    /\ Answered
    /\ Len(page) = 3
    /\ \A i \in 1..3 : HasValidDetails(page[i])
    /\ AgreeOnComparedFields(page[1], page[2])
    /\ AgreeOnComparedFields(page[2], page[3])
    /\ page[2].timestamp - page[1].timestamp = 30
    /\ page[3].timestamp - page[2].timestamp = 31
    /\ Len(Groups) = 2
    /\ Groups[1].timestampEnd = toString(page[2].timestamp)

----------------------------------------------------------------------------
(* C28 *)

\* C28: when getLabeledEvents reads a page that holds only the row of a
\* successful label request, it returns one group with the timestampStart,
\* timestampEnd and images the label response reported and the duration
\* stored with the row (the largest minus the smallest timestamp of the
\* member events).
C28_ReadReturnsWhatLabelReported ==
    [][(/\ recResponse' # recResponse
        /\ recResponse'.handler = "getLabeledEvents"
        /\ recResponse'.status = 200
        /\ Labeled
        /\ page' = <<LastRow>>)
       => /\ Len(recResponse'.data) = 1
          /\ recResponse'.data[1].timestampStart = response.data[1].timestampStart
          /\ recResponse'.data[1].timestampEnd = response.data[1].timestampEnd
          /\ recResponse'.data[1].details.duration
                 = Max(RequestedTimestamps) - Min(RequestedTimestamps)
          /\ recResponse'.data[1].images = response.data[1].images]_vars

----------------------------------------------------------------------------
(* C29 *)

\* an id is listed twice in the request
RepeatsAnId ==
    \E i, j \in DOMAIN req.eventIds.items :
        i # j /\ req.eventIds.items[i] = req.eventIds.items[j]

\* the fields of req pass the validation and the credentials are configured
ReachesExistenceCheck ==
    /\ awsConfigured
    /\ ~FieldsDefective(req)
    /\ ~RejectedForCategory

\* C29: a label request that reaches the existence check with an id listed
\* twice is answered 404 without a copy and without a row, and the ids the
\* answer names are none when every listed id has an event; a request
\* that got past the existence check lists pairwise distinct ids that all
\* have an event.
C29_RepeatedIdIsNotFound ==
    /\ (pc = "idle" /\ response # NoReply /\ ReachesExistenceCheck /\ RepeatsAnId)
       => /\ response.status = 404
          /\ copyLog = <<>>
          /\ Len(labeledEvents) = segsAtStart
          /\ RequestedIds \subseteq DOMAIN events => response.ids = <<>>
    /\ (\/ pc \in {"copy", "create"}
        \/ (/\ pc = "idle"
            /\ ReachesExistenceCheck
            /\ response.status \notin {0, 404}))
       => /\ ~RepeatsAnId
          /\ RequestedIds \subseteq DOMAIN events

\* a request listing an existing event twice was answered 404 with no id
\* named as missing
C29_Witness ==
    /\ pc = "idle"
    /\ Len(req.eventIds.items) = 2
    /\ req.eventIds.items[1] = req.eventIds.items[2]
    /\ req.eventIds.items[1] \in DOMAIN events
    /\ response.status = 404
    /\ response.ids = <<>>

----------------------------------------------------------------------------
(* C30 *)

\* the events of the request are not all of one device
MixesDevices == \E i, j \in RequestedIds : events[i].deviceId # events[j].deviceId

\* C30: the deviceId of the row a label request inserts is that of a
\* member event of the smallest timestamp, and a request over events of
\* different devices is not rejected for it: it is answered 201, or 500
\* when a copy or the insert failed.
C30_DeviceOfEarliestEvent ==
    /\ Labeled =>
           \E id \in RequestedIds :
               /\ events[id].timestamp = Min(RequestedTimestamps)
               /\ LastRow.deviceId = events[id].deviceId
               /\ response.data[1].labeledEvent.deviceId = events[id].deviceId
    /\ (pc = "idle" /\ response # NoReply /\ MixesDevices)
       => \/ response.status = 201
          \/ /\ response.status = 500
             /\ \/ \E i \in DOMAIN copyLog : ~copyLog[i].ok
                \/ Len(copyLog) = Len(req.eventIds.items)

\* a request listing first the later event, of another device than the
\* earlier one, was labeled with the device of the earlier
C30_Witness ==
    /\ Labeled
    /\ Len(req.eventIds.items) = 2
    /\ events[req.eventIds.items[1]].timestamp > events[req.eventIds.items[2]].timestamp
    /\ events[req.eventIds.items[1]].deviceId # events[req.eventIds.items[2]].deviceId
    /\ LastRow.deviceId = events[req.eventIds.items[2]].deviceId

====
